---- MODULE Spec2Model ----
(***************************************************************************)
(* A model of the request/resilience core of the threads-go client:        *)
(* the error taxonomy (errors.go), the rate limiter (ratelimit.go), the    *)
(* HTTP executor HTTPClient.Do and the container wait loop (types.go).     *)
(*                                                                         *)
(* Time is counted in ticks, the resolution of time.Duration.  Second is   *)
(* the number of ticks in one second; it is kept small so that the clock   *)
(* stays inside the model's bounds.                                        *)
(***************************************************************************)
EXTENDS Integers, Sequences, FiniteSets, TLC

VARIABLES
    now,        \* the wall clock, time.Now()
    rl,         \* the fields of the client's RateLimiter
    cfg,        \* the RetryConfig of the HTTPClient
    pc,         \* position of the goroutine running HTTPClient.Do
    ctx,        \* opts.Context: "background", "live" or "cancelled"
    attempt,    \* the loop variable of Do
    delay,      \* the local variable delay of Do
    lastErr,    \* the local variable lastErr of Do
    result,     \* what Do returned: [resp, err]
    obs,        \* history of the current Do call (see ObsInit)
    cls,        \* the classifier run twice on one response (see ClsInit)
    mu,         \* RateLimiter.mu: the goroutine holding the lock, or Free
    th,         \* the goroutines calling the RateLimiter (see ThIdle)
    ctr,        \* a goroutine in waitForContainerReady (see CtrIdle)
    opctx,      \* the context passed to a public operation: "live" or "cancelled"
    post,       \* a goroutine in a post-creating operation (see PostIdle)
    cl,         \* a client and its clone (see ClIdle)
    lg,         \* executeRequest run with and without a logger (see LgIdle)
    rd,         \* Client.rateLimiter and the calls made on the client (see RdIdle)
    at,         \* one limiter update and the limiter before and after it (see AtIdle)
    tk,         \* Client.mu and the goroutines using the token (see TkIdle)
    ts,         \* the token in memory and in the token storage (see TsIdle)
    it          \* a pagination iterator and its server (see ItIdle)

doVars == <<now, rl, cfg, pc, ctx, attempt, delay, lastErr, result, obs>>
ext3 == <<at, tk, ts, it>>
ext2 == <<lg, rd, ext3>>
ext == <<opctx, post, cl, ext2>>
vars == <<doVars, cls, mu, th, ctr, ext>>

----------------------------------------------------------------------------
(* Bounds of the model *)

Second == 2
MaxRetriesBound == 2
MaxInitialDelay == 1
MaxDelayBound == 2
ResetAhead == 3

Minute == 60 * Second
Hour == 60 * Minute

\* time.Time{}: the zero time, far before every instant of the model
ZeroTime == 0 - (100 * Hour)

----------------------------------------------------------------------------
(* Error taxonomy, errors.go *)

Kinds == {"Authentication", "RateLimit", "Validation", "Network", "API"}

\* A Go error value.  kind is the concrete type errors.As finds in the chain:
\* one of Kinds, "Plain" for an fmt.Errorf/errors.New value with no typed
\* cause, "Context" for ctx.Err(), "nil" for a nil error.  wrap names the
\* outermost fmt.Errorf("...: %w") wrapper, which keeps the chain intact.
MkErr(kind, code, temporary, retryAfter) ==
    [kind |-> kind, code |-> code, temporary |-> temporary,
     retryAfter |-> retryAfter, wrap |-> "none"]

NoErr == MkErr("nil", 0, FALSE, 0)

NewAuthenticationError(code) == MkErr("Authentication", code, FALSE, 0)
NewRateLimitError(code, retryAfter) == MkErr("RateLimit", code, FALSE, retryAfter)
NewValidationError(code) == MkErr("Validation", code, FALSE, 0)
NewNetworkError(code, temporary) == MkErr("Network", code, temporary, 0)
NewAPIError(code) == MkErr("API", code, FALSE, 0)
PlainError == MkErr("Plain", 0, FALSE, 0)
CtxErr == MkErr("Context", 0, FALSE, 0)

\* fmt.Errorf("<label>: %w", err)
Wrap(label, err) == [err EXCEPT !.wrap = label]

IsAuthenticationError(err) == err.kind = "Authentication"
IsRateLimitError(err) == err.kind = "RateLimit"
IsValidationError(err) == err.kind = "Validation"
IsNetworkError(err) == err.kind = "Network"
IsAPIError(err) == err.kind = "API"

\* the number of Is...Error predicates an error satisfies
KindCount(err) ==
    Cardinality({k \in Kinds :
        \/ k = "Authentication" /\ IsAuthenticationError(err)
        \/ k = "RateLimit" /\ IsRateLimitError(err)
        \/ k = "Validation" /\ IsValidationError(err)
        \/ k = "Network" /\ IsNetworkError(err)
        \/ k = "API" /\ IsAPIError(err)})

----------------------------------------------------------------------------
(* Rate limiter, ratelimit.go *)

InitialLimit == 100
BackoffMultiplier == 2
MaxBackoff == 5 * Minute

NewRateLimiter(t) ==
    [limit |-> InitialLimit, remaining |-> InitialLimit,
     resetTime |-> t + Hour, rateLimited |-> FALSE,
     lastRequestTime |-> ZeroTime, lastRateLimitTime |-> ZeroTime]

\* the limiter after ShouldWait ran at time t
ShouldWaitState(r, t) ==
    IF t > r.resetTime THEN [r EXCEPT !.rateLimited = FALSE] ELSE r

\* the value ShouldWait returns at time t
ShouldWaitValue(r, t) ==
    ShouldWaitState(r, t).rateLimited /\ t < r.resetTime

IsRateLimitedValue(r, t) == r.rateLimited /\ t < r.resetTime

calculateBackoff(r, t) ==
    IF t - r.lastRequestTime < Minute
    THEN (IF Second * BackoffMultiplier > MaxBackoff
          THEN MaxBackoff ELSE Second * BackoffMultiplier)
    ELSE Second

\* the duration Wait sleeps when it reaches its select at time t
WaitTime(r, t) ==
    LET untilReset == r.resetTime - t
    IN  IF t - r.lastRateLimitTime < Minute /\ calculateBackoff(r, t) > untilReset
        THEN calculateBackoff(r, t)
        ELSE untilReset

\* a RateLimitInfo; Nil when parseRateLimitHeaders returned nil
NilInfo == [nil |-> TRUE, limit |-> 0, remaining |-> 0, reset |-> ZeroTime, retryAfter |-> 0]

UpdateFromHeaders(r, info) ==
    IF info.nil THEN r
    ELSE [r EXCEPT
            !.limit = IF info.limit > 0 THEN info.limit ELSE @,
            !.remaining = IF info.remaining >= 0 THEN info.remaining ELSE @,
            !.resetTime = IF info.reset # ZeroTime THEN info.reset ELSE @]

MarkRateLimited(r, resetTime, t) ==
    [r EXCEPT !.rateLimited = TRUE,
              !.lastRateLimitTime = t,
              !.resetTime = IF resetTime # ZeroTime THEN resetTime ELSE @]

----------------------------------------------------------------------------
(* HTTP executor, HTTPClient *)

\* response headers as sent: 0 / ZeroTime stand for an absent header
parseRateLimitHeaders(h) ==
    IF h.limit = 0 /\ h.remaining = 0 /\ h.reset = ZeroTime
    THEN NilInfo
    ELSE [nil |-> FALSE, limit |-> h.limit, remaining |-> h.remaining,
          reset |-> h.reset, retryAfter |-> h.retryAfter]

\* the code createErrorFromResponse puts into the error: the code of the
\* JSON error body when the body has a message and a non-zero code
errorCode(status, body) ==
    IF body.msg /\ body.code # 0 THEN body.code ELSE status

retryAfterOf(info) ==
    IF ~info.nil /\ info.retryAfter > 0 THEN info.retryAfter ELSE 0

\* mutant: 403 falls through to the default branch
createErrorFromResponse_403Default(status, body, info) ==
    CASE status = 401 -> NewAuthenticationError(errorCode(status, body))
      [] status = 429 -> NewRateLimitError(errorCode(status, body), retryAfterOf(info))
      [] status \in {400, 422} -> NewValidationError(errorCode(status, body))
      [] OTHER -> NewAPIError(errorCode(status, body))

createErrorFromResponse(status, body, info) ==
    CASE status \in {401, 403} -> NewAuthenticationError(errorCode(status, body))
      [] status = 429 -> NewRateLimitError(errorCode(status, body), retryAfterOf(info))
      [] status \in {400, 422} -> NewValidationError(errorCode(status, body))
      [] status \in {500, 502, 503, 504} -> NewAPIError(errorCode(status, body))
      [] OTHER -> NewAPIError(errorCode(status, body))

\* mutant: every error response marks the limiter
createErrorLimiter_MarksAll(r, status, info, t) ==
    MarkRateLimited(r, t + retryAfterOf(info), t)

\* the limiter after createErrorFromResponse ran at time t (the 429 branch
\* calls MarkRateLimited)
createErrorLimiter(r, status, info, t) ==
    IF status = 429
    THEN LET hdrReset == IF ~info.nil /\ info.reset # ZeroTime THEN info.reset ELSE ZeroTime
             resetTime == IF hdrReset = ZeroTime THEN t + retryAfterOf(info) ELSE hdrReset
         IN  MarkRateLimited(r, resetTime, t)
    ELSE r

wrapNetworkError(temporary) == NewNetworkError(0, temporary)

\* mutant: validation and authentication errors are retried too
isRetryableError_RetryAll(err) ==
    err.kind \in {"RateLimit", "Validation", "Authentication"}
    \/ (err.kind = "Network" /\ err.temporary)
    \/ (err.kind = "API" /\ err.code >= 500 /\ err.code < 600)

isRetryableError(err) ==
    IF IsRateLimitError(err) THEN TRUE
    ELSE IF err.kind = "Network" THEN err.temporary
    ELSE IF err.kind = "API" THEN err.code >= 500 /\ err.code < 600
    ELSE FALSE

shouldRetryStatus(statusCode) == statusCode \in {429, 500, 502, 503, 504}

\* mutant: only server errors are reported as errors
isHTTPError_ServerOnly(status) == status >= 500

\* executeRequest reports every status >= 400 as an error
isHTTPError(status) == status >= 400

----------------------------------------------------------------------------
(* Inputs of the executor *)

Factors == {<<1, 2>>, <<3, 2>>, <<2, 1>>}

\* the RetryConfig of the example in the backoff contract:
\* 1s initial delay, factor 2, 30s cap
ExampleRetries == 7
ExampleConfig ==
    [MaxRetries |-> ExampleRetries, InitialDelay |-> Second,
     MaxDelay |-> 30 * Second, BackoffFactor |-> <<2, 1>>]

\* Config.Validate: what NewClient accepts as a RetryConfig
Validate(c) ==
    /\ c.MaxRetries >= 0
    /\ c.InitialDelay > 0
    /\ c.MaxDelay > 0
    /\ c.BackoffFactor[1] > 0
    /\ c.InitialDelay <= c.MaxDelay

\* the RetryConfigs explored: no retry or MaxRetriesBound retries, every
\* valid pair of delays within the bounds, and the example
RetryConfigs ==
    {c \in [MaxRetries : {0, MaxRetriesBound}, InitialDelay : 1..MaxInitialDelay,
            MaxDelay : 1..MaxDelayBound, BackoffFactor : Factors] : Validate(c)}
    \cup {ExampleConfig}

Statuses == {200, 302, 400, 401, 403, 404, 422, 429, 500, 501, 502, 503, 504}

\* response bodies: msg is "the JSON error object has a message", code its code
Bodies == {[msg |-> FALSE, code |-> 0], [msg |-> TRUE, code |-> 0],
           [msg |-> TRUE, code |-> 2], [msg |-> TRUE, code |-> 503]}

NoBody == [msg |-> FALSE, code |-> 0]
NoHdr == [limit |-> 0, remaining |-> 0, reset |-> ZeroTime, retryAfter |-> 0]

\* the rate-limit headers a response sent at time t may carry
Headers(t) ==
    {NoHdr,
     [limit |-> 50, remaining |-> 7, reset |-> t + ResetAhead, retryAfter |-> 0],
     [limit |-> 0, remaining |-> 0, reset |-> ZeroTime, retryAfter |-> Second],
     [limit |-> 50, remaining |-> 0, reset |-> t + ResetAhead, retryAfter |-> Second]}

\* what one executeRequest can meet: a response, a transport failure
\* (temporary or permanent), a failure to read the body, or a failure to
\* build the request (no physical call is made)
Outcomes(t) ==
    [t : {"resp"}, status : Statuses, body : Bodies, hdr : Headers(t)]
    \cup [t : {"netTemp", "netPerm", "readFail", "buildFail"},
          status : {0}, body : {NoBody}, hdr : {NoHdr}]

NoOutcome == [t |-> "none", status |-> 0, body |-> NoBody]

\* the error executeRequest returns for outcome o (NoErr for success)
executeRequestErr(o) ==
    CASE o.t = "buildFail" -> Wrap("build", PlainError)
      [] o.t = "netTemp" -> wrapNetworkError(TRUE)
      [] o.t = "netPerm" -> wrapNetworkError(FALSE)
      [] o.t = "readFail" -> Wrap("read", PlainError)
      [] OTHER -> IF isHTTPError(o.status)
                  THEN createErrorFromResponse(o.status, o.body, parseRateLimitHeaders(o.hdr))
                  ELSE NoErr

\* the limiter after executeRequest met outcome o at time t
executeRequestLimiter(r, o, t) ==
    IF o.t = "resp" /\ isHTTPError(o.status)
    THEN createErrorLimiter(r, o.status, parseRateLimitHeaders(o.hdr), t)
    ELSE r

\* the calls of MarkRateLimited one createErrorFromResponse makes
createErrorMarks(status) == IF status = 429 THEN 1 ELSE 0

\* the calls of MarkRateLimited one iteration of Do makes for outcome o: in
\* executeRequest for an HTTP error, and in the shouldRetryStatus branch
DoExecMarks(o) ==
    (IF o.t = "resp" /\ isHTTPError(o.status) THEN createErrorMarks(o.status) ELSE 0)
    + (IF o.t = "resp" /\ executeRequestErr(o) = NoErr /\ shouldRetryStatus(o.status)
       THEN createErrorMarks(o.status) ELSE 0)

\* mutant: the cap at MaxDelay is forgotten
NextDelay_NoCap(d, c) == (d * c.BackoffFactor[1]) \div c.BackoffFactor[2]

\* delay = time.Duration(float64(delay) * BackoffFactor), capped at MaxDelay
NextDelay(d, c) ==
    LET grown == (d * c.BackoffFactor[1]) \div c.BackoffFactor[2]
    IN  IF grown > c.MaxDelay THEN c.MaxDelay ELSE grown

\* the loop condition of Do
LoopContinues(a, c) == a <= c.MaxRetries

NoResp == 0
NoResult == [resp |-> NoResp, err |-> NoErr]

ObsInit ==
    [calls |-> 0,            \* physical HTTP calls of this Do
     all503 |-> TRUE,        \* every attempt so far was answered 503
     last |-> NoOutcome,     \* what the latest attempt met
     decision |-> "none",    \* "retry", "exhausted" or "return" after it
     sleeps |-> << >>,       \* the backoff sleeps completed
     waited |-> FALSE,       \* the rate limiter's Wait slept
     marks |-> 0]            \* MarkRateLimited calls of the latest attempt

\* the goroutines that use one RateLimiter concurrently
NumCallers == 2
MaxCalls == 3
Callers == 1..NumCallers
Free == 0

\* what the last ShouldWait of a goroutine saw and did: the instant, the
\* fields before the call, the value returned and the flag after the call
NoSW ==
    [valid |-> FALSE, at |-> 0, reset |-> 0, flagBefore |-> FALSE,
     ret |-> FALSE, flagAfter |-> FALSE]

\* a goroutine outside the RateLimiter.  calls counts its calls; op is the method it is in, pc its
\* position ("lock": at rl.mu.Lock(), "sleep": in the select of Wait), wake
\* the instant its timer fires, ctx its context, cancelAt the instant the
\* context was cancelled; ret, elapsed, reached and cleared describe its last
\* return from Wait
ThIdle ==
    [op |-> "none", pc |-> "idle", arg |-> 0, wake |-> 0, ctx |-> "live",
     cancelAt |-> 0 - 1, ret |-> "none", entryLimited |-> FALSE,
     elapsed |-> 0, reached |-> FALSE, cleared |-> FALSE, sw |-> NoSW,
     calls |-> 0]

\* the container wait while it is not running.  polls counts the calls of
\* GetContainerStatus, seen lists what each poll observed ("fail" for a
\* failed status check), ret is "ok" or "err" once the wait returned, err
\* the error value, text which of its messages it carries, msg the
\* error_message and n the attempt count embedded in the text; errmsg is
\* the error_message of the latest status the remote service reported
CtrIdle ==
    [pc |-> "idle", maxAttempts |-> 0, attempt |-> 0, polls |-> 0, seen |-> << >>,
     ret |-> "none", err |-> NoErr, text |-> "none", msg |-> "", n |-> 0,
     errmsg |-> ""]

\* the classifier's state while no classification is under way
ClsIdle ==
    [stage |-> 0, status |-> 0, body |-> NoBody, hdr |-> NoHdr,
     first |-> NoErr, firstRetry |-> FALSE, second |-> NoErr, secondRetry |-> FALSE]

\* a post-creating operation (CreateTextPost, CreateImagePost,
\* CreateVideoPost, CreateCarouselPost or CreateReply) that has not begun.
\* kind names the operation and pc its position; created says that the
\* create-container call was issued and createOK that it returned a
\* container; vattempt and vpolls are the loop variable and the status
\* polls of waitForContainerProcessing; published says that the publish
\* call was issued and pollsAtPublish how many status polls had been made
\* by then; vret is "ok" or "err" once waitForContainerProcessing
\* returned; slept is the time spent in the reply delay; cancelAt is the
\* instant the caller cancelled the context, cancelIn the sleep it
\* interrupted and pollsAtCancel the status polls made by then; ret is
\* "ok" or "err" once the operation returned and err its error
PostIdle ==
    [kind |-> "none", pc |-> "idle", created |-> FALSE, createOK |-> FALSE,
     vattempt |-> 0, vpolls |-> 0, published |-> FALSE, pollsAtPublish |-> 0,
     slept |-> 0, cancelAt |-> 0 - 1, cancelIn |-> "none", pollsAtCancel |-> 0,
     vret |-> "none", ret |-> "none", err |-> NoErr]

\* no client exists yet (see NewClientOp and CloneOp)
ClIdle == [pc |-> "none"]

\* executeRequest has not run (see ExecLogged)
LgIdle == [stage |-> 0]

\* a client whose rate-limit switch has not been used.  limiter says what
\* Client.rateLimiter points to: "shared" (the limiter of its HTTPClient),
\* "nil" or "own" (a limiter EnableRateLimiting made); disabled says that
\* DisableRateLimiting was called and EnableRateLimiting not since; op and
\* ret name the last call on the client and how it ended; waited and
\* marked say that the last request slept in the limiter's Wait and that
\* its 429 answer changed the limiter of the HTTPClient; requests counts
\* the requests
RdIdle ==
    [pc |-> "none", limiter |-> "shared", disabled |-> FALSE, op |-> "none",
     ret |-> "none", waited |-> FALSE, marked |-> FALSE, requests |-> 0]

\* no limiter update has been made (see SpecAttempt)
AtIdle == [stage |-> 0]

\* no goroutine uses the token (see SpecTokenLock)
TkIdle == [pc |-> "none"]

\* no token operation has been made (see SpecToken)
TsIdle == [pc |-> "none"]

\* no iterator exists (see SpecIterator)
ItIdle == [pc |-> "none"]

Ext3Idle ==
    /\ at = AtIdle
    /\ tk = TkIdle
    /\ ts = TsIdle
    /\ it = ItIdle

\* the state of the components a specification does not exercise
Ext2Idle ==
    /\ lg = LgIdle
    /\ rd = RdIdle
    /\ Ext3Idle

ExtIdle ==
    /\ opctx = "live"
    /\ post = PostIdle
    /\ cl = ClIdle
    /\ Ext2Idle

----------------------------------------------------------------------------
(* HTTPClient.Do *)

\* the limiter as earlier requests of the client can have left it: fresh, or
\* marked by a 429 whose reset time is before, at or after the present
InitLimiters ==
    {NewRateLimiter(0 - Second)}
    \cup {MarkRateLimited(NewRateLimiter(0 - Second), reset, 0 - 1) :
              reset \in {0 - 1, 0, ResetAhead}}

DoInit ==
    /\ now = 0
    /\ rl \in InitLimiters
    /\ cfg \in RetryConfigs
    /\ pc = "idle"
    /\ ctx = "background"
    /\ attempt = 0
    /\ delay = 0
    /\ lastErr = NoErr
    /\ result = NoResult
    /\ obs = ObsInit
    /\ cls = ClsIdle
    /\ mu = Free
    /\ th = [c \in Callers |-> ThIdle]
    /\ ctr = CtrIdle
    /\ ExtIdle

\* enter the retry loop
EnterLoop ==
    /\ attempt' = 0
    /\ delay' = cfg.InitialDelay
    /\ lastErr' = NoErr
    /\ IF LoopContinues(0, cfg)
       THEN pc' = "exec" /\ result' = NoResult
       ELSE pc' = "done" /\ result' = [resp |-> NoResp, err |-> Wrap("retries", NoErr)]

\* Do is called: the ShouldWait check
DoBegin ==
    /\ pc = "idle"
    /\ \E k \in {"background", "live"} : ctx' = k
    /\ obs' = ObsInit
    /\ rl' = ShouldWaitState(rl, now)
    /\ IF ShouldWaitValue(rl, now)
       THEN /\ pc' = "ratewait"
            /\ attempt' = 0 /\ delay' = 0 /\ lastErr' = NoErr /\ result' = NoResult
       ELSE EnterLoop
    /\ UNCHANGED <<now, cfg, cls, mu, th, ctr, ext>>

\* the caller cancels the context of the running Do
Cancel ==
    /\ pc \in {"ratewait", "backoff"}
    /\ ctx = "live"
    /\ ctx' = "cancelled"
    /\ UNCHANGED <<now, rl, cfg, pc, attempt, delay, lastErr, result, obs, cls, mu, th, ctr, ext>>

\* the caller of a public operation (GetPost, CreateTextPost, ...) cancels
\* the context it passed to the operation while the Do call the operation
\* made through GET/POST/PUT/DELETE, which set no opts.Context, is in one
\* of its sleeps
OpCancel ==
    /\ pc \in {"ratewait", "backoff"}
    /\ ctx = "background"
    /\ opctx = "live"
    /\ opctx' = "cancelled"
    /\ UNCHANGED <<doVars, cls, mu, th, ctr, post, cl, ext2>>

\* rateLimiter.Wait(opts.Context)
DoRateWait ==
    /\ pc = "ratewait"
    /\ IF now > rl.resetTime
       THEN /\ rl' = [rl EXCEPT !.remaining = rl.limit, !.resetTime = now + Hour,
                                !.rateLimited = FALSE]
            /\ EnterLoop
            /\ UNCHANGED <<now, obs>>
       ELSE IF ~rl.rateLimited
       THEN /\ rl' = [rl EXCEPT !.lastRequestTime = now]
            /\ EnterLoop
            /\ UNCHANGED <<now, obs>>
       ELSE IF ctx = "cancelled"
       THEN /\ pc' = "done"
            /\ result' = [resp |-> NoResp, err |-> Wrap("ratewait", CtxErr)]
            /\ UNCHANGED <<now, rl, attempt, delay, lastErr, obs>>
       ELSE /\ now' = now + WaitTime(rl, now)
            /\ rl' = [rl EXCEPT !.rateLimited = FALSE, !.lastRequestTime = now']
            /\ obs' = [obs EXCEPT !.waited = TRUE]
            /\ EnterLoop
    /\ UNCHANGED <<cfg, ctx, cls, mu, th, ctr, ext>>

\* the sleep before a retry, and the growth of delay
DoBackoff ==
    /\ pc = "backoff"
    /\ IF ctx = "cancelled"
       THEN /\ pc' = "done"
            /\ result' = [resp |-> NoResp, err |-> CtxErr]
            /\ UNCHANGED <<now, delay, obs>>
       ELSE /\ now' = now + delay
            /\ obs' = [obs EXCEPT !.sleeps = Append(@, delay)]
            /\ delay' = NextDelay(delay, cfg)
            /\ pc' = "exec"
            /\ UNCHANGED result
    /\ UNCHANGED <<rl, cfg, ctx, attempt, lastErr, cls, mu, th, ctr, ext>>

\* "continue": the next iteration, or the end of the loop
Continue(e, o) ==
    /\ lastErr' = e
    /\ attempt' = attempt + 1
    /\ IF LoopContinues(attempt + 1, cfg)
       THEN /\ pc' = "backoff"
            /\ result' = NoResult
       ELSE /\ pc' = "done"
            /\ result' = [resp |-> NoResp, err |-> Wrap("retries", e)]

Observe(o, d) ==
    obs' = [obs EXCEPT
        !.calls = IF o.t = "buildFail" THEN @ ELSE @ + 1,
        !.all503 = @ /\ o.t = "resp" /\ o.status = 503,
        !.last = [t |-> o.t, status |-> o.status, body |-> o.body],
        !.decision = d,
        !.marks = DoExecMarks(o)]

\* the limiter after one iteration of the loop met outcome o at time t:
\* executeRequest (createErrorFromResponse for an HTTP error), and for a
\* response without error UpdateFromHeaders and the shouldRetryStatus branch
DoExecLimiter(r, o, t) ==
    LET err == executeRequestErr(o)
        rl1 == executeRequestLimiter(r, o, t)
        info == parseRateLimitHeaders(o.hdr)
        rl2 == UpdateFromHeaders(rl1, info)
    IN  IF err # NoErr
        THEN rl1
        ELSE IF shouldRetryStatus(o.status)
             THEN createErrorLimiter(rl2, o.status, info, t)
             ELSE rl2

\* one iteration of the loop: executeRequest and what Do makes of it
DoExec ==
    /\ pc = "exec"
    /\ \E o \in Outcomes(now) :
        /\ o.t = "buildFail" => attempt = 0
        /\ rl' = DoExecLimiter(rl, o, now)
        /\ LET err == executeRequestErr(o)
               info == parseRateLimitHeaders(o.hdr)
           IN  IF err # NoErr
               THEN IF ~isRetryableError(err)
                    THEN /\ pc' = "done"
                         /\ result' = [resp |-> NoResp, err |-> err]
                         /\ lastErr' = err
                         /\ Observe(o, "return")
                         /\ UNCHANGED attempt
                    ELSE /\ Continue(err, o)
                         /\ Observe(o, IF LoopContinues(attempt + 1, cfg)
                                       THEN "retry" ELSE "exhausted")
               ELSE IF shouldRetryStatus(o.status)
                    THEN /\ Continue(createErrorFromResponse(o.status, o.body, info), o)
                         /\ Observe(o, IF LoopContinues(attempt + 1, cfg)
                                       THEN "retry" ELSE "exhausted")
                    ELSE /\ pc' = "done"
                         /\ result' = [resp |-> o.status, err |-> NoErr]
                         /\ Observe(o, "return")
                         /\ UNCHANGED <<attempt, lastErr>>
    /\ UNCHANGED <<now, cfg, ctx, delay, cls, mu, th, ctr, ext>>

DoNext == DoBegin \/ Cancel \/ OpCancel \/ DoRateWait \/ DoBackoff \/ DoExec

Spec == DoInit /\ [][DoNext]_vars

----------------------------------------------------------------------------
(* Properties of HTTPClient.Do *)

Done == pc = "done"

\* C1 (as claimed): an endpoint that answers 503 to every attempt, whatever
\* the body, is called exactly MaxRetries+1 times and Do returns an API error.
C1_RetryBudget ==
    (Done /\ obs.calls >= 1 /\ obs.all503 /\ ctx # "cancelled")
        => (obs.calls = cfg.MaxRetries + 1 /\ IsAPIError(result.err))

\* C2: a first response with status 400, 422, 401 or 403 ends Do after that
\* one physical call with a Validation (400, 422) or Authentication (401,
\* 403) error, and no attempt that met such a status is ever retried.
C2_NonRetryable ==
    (obs.last.t = "resp" /\ obs.last.status \in {400, 422, 401, 403})
        => /\ obs.decision = "return"
           /\ Done
           /\ result.resp = NoResp
           /\ obs.last.status \in {400, 422} => IsValidationError(result.err)
           /\ obs.last.status \in {401, 403} => IsAuthenticationError(result.err)
           /\ (Len(obs.sleeps) = 0 => obs.calls = 1)

C2_Witness ==
    /\ Done /\ obs.calls = 1 /\ cfg.MaxRetries > 0
    /\ obs.last.status = 422 /\ obs.last.body.code = 503
    /\ IsValidationError(result.err)

\* what the claim C3 calls a retry-worthy attempt
ClaimRetryWorthy(o) ==
    \/ o.t = "netTemp"
    \/ o.t = "resp" /\ o.status \in {429, 500, 502, 503, 504}

\* C3 (as claimed): an attempt is retried iff it ended in a temporary Network
\* error or a response with status 429, 500, 502, 503 or 504, whatever the
\* body; every other failed attempt is returned at once.
C3_RetryByStatusOnly ==
    (obs.decision # "none" /\ obs.last.t # "buildFail"
        /\ ~(obs.last.t = "resp" /\ obs.last.status < 400))
        => (obs.decision \in {"retry", "exhausted"} <=> ClaimRetryWorthy(obs.last))

\* C6: Do returns exactly one of a response and an error; a response is
\* returned only for a last status below 400, and every other outcome gives a
\* nil response with a non-nil error.
C6_ResponseXorError ==
    Done =>
        /\ (result.resp # NoResp) <=> (result.err.kind = "nil")
        /\ result.resp # NoResp =>
              (obs.last.t = "resp" /\ obs.last.status < 400 /\ result.resp = obs.last.status)
        /\ (obs.last.t = "resp" /\ obs.last.status >= 400) => result.resp = NoResp

C6_Witness ==
    /\ Done /\ obs.last.t = "resp" /\ obs.last.status = 404
    /\ result.resp = NoResp /\ IsAPIError(result.err)

\* C7 (as claimed): every error Do returns satisfies exactly one of the five
\* Is...Error predicates, the error for a cancellation included.
C7_ClosedTaxonomy ==
    (Done /\ result.err.kind # "nil") => KindCount(result.err) = 1

\* the exact closed form min(InitialDelay * f^(k-1), MaxDelay) of the claim,
\* compared with sleep d without rounding (f = p/q)
RECURSIVE Pow(_, _)
Pow(b, n) == IF n = 0 THEN 1 ELSE b * Pow(b, n - 1)

IsClosedForm(d, k, c) ==
    LET p == Pow(c.BackoffFactor[1], k - 1)
        q == Pow(c.BackoffFactor[2], k - 1)
    IN  IF c.InitialDelay * p > c.MaxDelay * q
        THEN d = c.MaxDelay
        ELSE d * q = c.InitialDelay * p

RECURSIVE TruncatedDelay(_, _)
TruncatedDelay(k, c) ==
    IF k = 1 THEN c.InitialDelay
    ELSE LET prev == TruncatedDelay(k - 1, c)
             grown == (prev * c.BackoffFactor[1]) \div c.BackoffFactor[2]
         IN  IF grown > c.MaxDelay THEN c.MaxDelay ELSE grown

\* 1s, 2s, 4s, 8s, 16s, 30s, 30s, ...
ExampleSleep(k) == IF k <= 5 THEN Pow(2, k - 1) * Second ELSE 30 * Second

----------------------------------------------------------------------------
(* The classifier as a function: createErrorFromResponse applied twice to  *)
(* one response, the second time after its own side effect on the limiter  *)

ClsStatuses == {400, 401, 402, 403, 404, 409, 410, 422, 429, 500, 501, 502, 503, 504}

ClsInit ==
    /\ now = 0
    /\ rl = NewRateLimiter(0 - Second)
    /\ cfg = ExampleConfig
    /\ pc = "classify"
    /\ ctx = "background"
    /\ attempt = 0
    /\ delay = 0
    /\ lastErr = NoErr
    /\ result = NoResult
    /\ obs = ObsInit
    /\ mu = Free
    /\ th = [c \in Callers |-> ThIdle]
    /\ ctr = CtrIdle
    /\ ExtIdle
    /\ \E st \in ClsStatuses, b \in Bodies, h \in Headers(0) :
          cls = [ClsIdle EXCEPT !.status = st, !.body = b, !.hdr = h]

\* createErrorFromResponse(resp), and the verdict of isRetryableError on it
Classify ==
    /\ pc = "classify"
    /\ cls.stage < 2
    /\ LET info == parseRateLimitHeaders(cls.hdr)
           e == createErrorFromResponse(cls.status, cls.body, info)
       IN  /\ cls' = IF cls.stage = 0
                     THEN [cls EXCEPT !.stage = 1, !.first = e,
                                      !.firstRetry = isRetryableError(e)]
                     ELSE [cls EXCEPT !.stage = 2, !.second = e,
                                      !.secondRetry = isRetryableError(e)]
           /\ rl' = createErrorLimiter(rl, cls.status, info, now)
    /\ UNCHANGED <<now, cfg, pc, ctx, attempt, delay, lastErr, result, obs, mu, th, ctr, ext>>

\* time passes between the two classifications
ClsTick ==
    /\ pc = "classify"
    /\ cls.stage = 1
    /\ now = 0
    /\ now' = 1
    /\ UNCHANGED <<rl, cfg, pc, ctx, attempt, delay, lastErr, result, obs, cls, mu, th, ctr, ext>>

ClsNext == Classify \/ ClsTick

SpecClassify == ClsInit /\ [][ClsNext]_vars

\* the mapping from status to kind as the claim states it
ClaimedKind(status) ==
    IF status \in {401, 403} THEN "Authentication"
    ELSE IF status = 429 THEN "RateLimit"
    ELSE IF status \in {400, 422} THEN "Validation"
    ELSE "API"

\* C4: createErrorFromResponse maps 401 and 403 to Authentication, 429 to
\* RateLimit, 400 and 422 to Validation and every other status >= 400 to
\* API; classifying the same status and body a second time gives the same
\* kind and the same retryability verdict.
C4_Classification ==
    /\ cls.stage >= 1 =>
          /\ cls.first.kind = ClaimedKind(cls.status)
          /\ KindCount(cls.first) = 1
    /\ cls.stage = 2 =>
          /\ cls.second.kind = cls.first.kind
          /\ cls.secondRetry = cls.firstRetry

C4_Witness ==
    /\ cls.stage = 2 /\ now = 1
    /\ cls.status = 403 /\ cls.body.code = 503
    /\ IsAuthenticationError(cls.second) /\ ~cls.secondRetry

----------------------------------------------------------------------------
(* The RateLimiter used by several goroutines.  Every method takes rl.mu;  *)
(* Wait keeps it locked while it sleeps in its select.                     *)

MaxTime == BackoffMultiplier * Second + 1

LimiterOps == {"ShouldWait", "Wait", "MarkRateLimited", "UpdateFromHeaders", "IsRateLimited"}

RLInit ==
    /\ now = 0
    /\ rl \in InitLimiters
    /\ cfg = ExampleConfig
    /\ pc = "limiter"
    /\ ctx = "background"
    /\ attempt = 0
    /\ delay = 0
    /\ lastErr = NoErr
    /\ result = NoResult
    /\ obs = ObsInit
    /\ cls = ClsIdle
    /\ mu = Free
    /\ th = [c \in Callers |-> ThIdle]
    /\ ctr = CtrIdle
    /\ ExtIdle

doFrame == <<cfg, pc, ctx, attempt, delay, lastErr, result, obs, cls, ctr, ext>>

\* the calls made so far by the goroutines in set S
RECURSIVE TotalCalls(_)
TotalCalls(S) ==
    IF S = {} THEN 0
    ELSE LET c == CHOOSE x \in S : TRUE
         IN  th[c].calls + TotalCalls(S \ {c})

\* goroutine c has a step it takes without waiting for anything
Urgent(c) ==
    \/ th[c].pc = "lock" /\ mu = Free
    \/ th[c].pc = "sleep" /\ (th[c].ctx = "cancelled" \/ now >= th[c].wake)

\* goroutine c calls a method of the limiter and arrives at rl.mu.Lock()
Call(c) ==
    /\ pc = "limiter"
    /\ th[c].pc = "idle"
    /\ TotalCalls(Callers) < MaxCalls
    /\ \E op \in LimiterOps :
          th' = [th EXCEPT ![c] = [ThIdle EXCEPT !.op = op, !.pc = "lock",
                                                 !.calls = th[c].calls + 1]]
    /\ UNCHANGED <<now, rl, mu, doFrame>>

\* RateLimiter.ShouldWait
ShouldWait(c) ==
    /\ th[c].pc = "lock" /\ th[c].op = "ShouldWait" /\ mu = Free
    /\ rl' = ShouldWaitState(rl, now)
    /\ th' = [th EXCEPT ![c] = [@ EXCEPT !.pc = "idle",
                 !.sw = [valid |-> TRUE, at |-> now, reset |-> rl.resetTime,
                         flagBefore |-> rl.rateLimited,
                         ret |-> ShouldWaitValue(rl, now),
                         flagAfter |-> rl'.rateLimited]]]
    /\ UNCHANGED <<now, mu, doFrame>>

\* RateLimiter.IsRateLimited
IsRateLimited(c) ==
    /\ th[c].pc = "lock" /\ th[c].op = "IsRateLimited" /\ mu = Free
    /\ th' = [th EXCEPT ![c] = [@ EXCEPT !.pc = "idle",
                 !.ret = IF IsRateLimitedValue(rl, now) THEN "true" ELSE "false"]]
    /\ UNCHANGED <<now, rl, mu, doFrame>>

\* RateLimiter.MarkRateLimited, as createErrorFromResponse calls it on a 429
MarkRateLimitedOp(c) ==
    /\ th[c].pc = "lock" /\ th[c].op = "MarkRateLimited" /\ mu = Free
    /\ \E reset \in {now, now + ResetAhead} : rl' = MarkRateLimited(rl, reset, now)
    /\ th' = [th EXCEPT ![c] = [@ EXCEPT !.pc = "idle"]]
    /\ UNCHANGED <<now, mu, doFrame>>

\* RateLimiter.UpdateFromHeaders
UpdateFromHeadersOp(c) ==
    /\ th[c].pc = "lock" /\ th[c].op = "UpdateFromHeaders" /\ mu = Free
    /\ \E h \in Headers(now) :
          /\ ~parseRateLimitHeaders(h).nil
          /\ rl' = UpdateFromHeaders(rl, parseRateLimitHeaders(h))
    /\ th' = [th EXCEPT ![c] = [@ EXCEPT !.pc = "idle"]]
    /\ UNCHANGED <<now, mu, doFrame>>

\* RateLimiter.Wait up to its select
WaitEnter(c) ==
    /\ th[c].pc = "lock" /\ th[c].op = "Wait" /\ mu = Free
    /\ IF now > rl.resetTime
       THEN /\ rl' = [rl EXCEPT !.remaining = rl.limit, !.resetTime = now + Hour,
                                !.rateLimited = FALSE]
            /\ th' = [th EXCEPT ![c] = [@ EXCEPT !.pc = "idle", !.ret = "nil",
                         !.entryLimited = rl.rateLimited, !.elapsed = 0,
                         !.reached = TRUE, !.cleared = TRUE]]
            /\ UNCHANGED mu
       ELSE IF ~rl.rateLimited
       THEN /\ rl' = [rl EXCEPT !.lastRequestTime = now]
            /\ th' = [th EXCEPT ![c] = [@ EXCEPT !.pc = "idle", !.ret = "nil",
                         !.entryLimited = FALSE, !.elapsed = 0,
                         !.reached = (now >= rl.resetTime), !.cleared = TRUE]]
            /\ UNCHANGED mu
       ELSE /\ th' = [th EXCEPT ![c] = [@ EXCEPT !.pc = "sleep", !.arg = now,
                         !.entryLimited = TRUE, !.wake = now + WaitTime(rl, now)]]
            /\ mu' = c
            /\ UNCHANGED rl
    /\ UNCHANGED <<now, doFrame>>

\* the timer of Wait fires
WaitWake(c) ==
    /\ th[c].pc = "sleep" /\ now >= th[c].wake
    /\ rl' = [rl EXCEPT !.rateLimited = FALSE, !.lastRequestTime = now]
    /\ th' = [th EXCEPT ![c] = [@ EXCEPT !.pc = "idle", !.ret = "nil",
                 !.elapsed = now - th[c].arg, !.reached = (now >= rl.resetTime),
                 !.cleared = ~rl'.rateLimited]]
    /\ mu' = Free
    /\ UNCHANGED <<now, doFrame>>

\* the select of Wait sees ctx.Done()
WaitCancelled(c) ==
    /\ th[c].pc = "sleep" /\ th[c].ctx = "cancelled"
    /\ th' = [th EXCEPT ![c] = [@ EXCEPT !.pc = "idle", !.ret = "ctx",
                 !.elapsed = now - th[c].arg]]
    /\ mu' = Free
    /\ UNCHANGED <<now, rl, doFrame>>

\* the context of a goroutine blocked in Wait is cancelled before resetTime
\* and before the sleep it is blocked behind has run out
CancelCtx(c) ==
    /\ th[c].op = "Wait" /\ th[c].ctx = "live"
    /\ now < rl.resetTime
    /\ \/ th[c].pc = "sleep" /\ now < th[c].wake
       \/ th[c].pc = "lock" /\ mu # Free /\ now < th[mu].wake
    /\ th' = [th EXCEPT ![c] = [@ EXCEPT !.ctx = "cancelled", !.cancelAt = now]]
    /\ UNCHANGED <<now, rl, mu, doFrame>>

\* time passes while no goroutine can move on its own
RLTick ==
    /\ pc = "limiter"
    /\ now < MaxTime
    /\ \A c \in Callers : ~Urgent(c)
    /\ now' = now + 1
    /\ UNCHANGED <<rl, mu, th, doFrame>>

RLNext ==
    \/ \E c \in Callers : Call(c)
    \/ \E c \in Callers : ShouldWait(c)
    \/ \E c \in Callers : IsRateLimited(c)
    \/ \E c \in Callers : MarkRateLimitedOp(c)
    \/ \E c \in Callers : UpdateFromHeadersOp(c)
    \/ \E c \in Callers : WaitEnter(c)
    \/ \E c \in Callers : WaitWake(c)
    \/ \E c \in Callers : WaitCancelled(c)
    \/ \E c \in Callers : CancelCtx(c)
    \/ RLTick

SpecRL == RLInit /\ [][RLNext]_vars

\* C8 (as claimed): ShouldWait returns true iff rateLimited and now <
\* resetTime, and a call with now >= resetTime (now = resetTime included)
\* returns false and leaves rateLimited false.
C8_ShouldWait ==
    \A c \in Callers :
        LET w == th[c].sw
        IN  w.valid =>
              /\ w.ret <=> (w.flagBefore /\ w.at < w.reset)
              /\ w.at >= w.reset => (~w.ret /\ ~w.flagAfter)

\* C9 (as claimed): Wait returns nil at once when the limiter is not
\* rate-limited; when it is, a nil return comes only once resetTime is
\* reached and leaves rateLimited false; and every caller blocked in Wait
\* whose context is cancelled before resetTime leaves Wait before resetTime
\* with the cancellation error, also when several callers wait.
C9_WaitContract ==
    \A c \in Callers :
        LET t == th[c]
        IN  t.op = "Wait" =>
              /\ (t.ret = "nil" /\ ~t.entryLimited) => t.elapsed = 0
              /\ (t.ret = "nil" /\ t.entryLimited) => (t.reached /\ t.cleared)
              /\ t.cancelAt >= 0 =>
                    /\ t.pc # "idle" => now < rl.resetTime
                    /\ t.pc = "idle" => t.ret = "ctx"

\* C26: while one goroutine is blocked inside Wait, a call of ShouldWait,
\* IsRateLimited, UpdateFromHeaders or MarkRateLimited by another goroutine
\* completes without waiting for that Wait to return: no such call stands
\* at the lock of the limiter while the sleeper still has time to sleep.
C26_NoWaitBehindWait ==
    \A c, d \in Callers :
        (th[d].pc = "sleep" /\ th[d].ctx = "live" /\ now < th[d].wake) =>
            ~(th[c].pc = "lock" /\ th[c].op # "Wait")

----------------------------------------------------------------------------
(* Container publish state machine: Client.waitForContainerReady *)

MaxPollAttempts == 4

ContainerStatusInProgress == "IN_PROGRESS"
ContainerStatusFinished == "FINISHED"
ContainerStatusPublished == "PUBLISHED"
ContainerStatusError == "ERROR"
ContainerStatusExpired == "EXPIRED"

\* the status strings the remote service may report; "PROCESSING" stands for
\* any string the client does not know
RemoteStatuses ==
    {ContainerStatusInProgress, ContainerStatusFinished, ContainerStatusPublished,
     ContainerStatusError, ContainerStatusExpired, "PROCESSING"}

ErrorMessages == {"", "bad asset"}

\* the errors GetContainerStatus can return
StatusCheckErrors ==
    {Wrap("get status", wrapNetworkError(FALSE)),
     Wrap("get status", NewAPIError(503)),
     NewAuthenticationError(401)}

\* mutant: ERROR is handled like IN_PROGRESS
ReadyVerdict_ErrorWaits(status) ==
    CASE status = ContainerStatusFinished -> "ok"
      [] status = ContainerStatusExpired -> "expired"
      [] OTHER -> "continue"

\* mutant: FINISHED is handled like IN_PROGRESS
ReadyVerdict_FinishedWaits(status) ==
    CASE status = ContainerStatusError -> "failed"
      [] status = ContainerStatusExpired -> "expired"
      [] OTHER -> "continue"

\* the switch of waitForContainerReady
ReadyVerdict(status) ==
    CASE status = ContainerStatusFinished -> "ok"
      [] status = ContainerStatusError -> "failed"
      [] status = ContainerStatusExpired -> "expired"
      [] status \in {ContainerStatusInProgress, ContainerStatusPublished} -> "continue"
      [] OTHER -> "continue"

\* mutant: the loop runs one iteration more
ReadyLoopContinues_OneMore(a, maxAttempts) == a <= maxAttempts

\* the loop condition of waitForContainerReady
ReadyLoopContinues(a, maxAttempts) == a < maxAttempts

CtrInit ==
    /\ now = 0
    /\ rl = NewRateLimiter(0 - Second)
    /\ cfg = ExampleConfig
    /\ pc = "container"
    /\ ctx = "background"
    /\ attempt = 0
    /\ delay = 0
    /\ lastErr = NoErr
    /\ result = NoResult
    /\ obs = ObsInit
    /\ cls = ClsIdle
    /\ mu = Free
    /\ th = [c \in Callers |-> ThIdle]
    /\ \E m \in 0..MaxPollAttempts : ctr = [CtrIdle EXCEPT !.maxAttempts = m]
    /\ ExtIdle

ctrFrame == <<rl, cfg, pc, ctx, attempt, delay, lastErr, result, obs, cls, mu, th, ext>>

\* the timeout return after the loop
ReadyTimeout(c) ==
    [c EXCEPT !.pc = "done", !.ret = "err", !.err = PlainError,
              !.text = "timeout", !.n = c.maxAttempts]

\* waitForContainerReady is called
ReadyStart ==
    /\ pc = "container"
    /\ ctr.pc = "idle"
    /\ ctr' = IF ReadyLoopContinues(0, ctr.maxAttempts)
              THEN [ctr EXCEPT !.pc = "poll"]
              ELSE ReadyTimeout(ctr)
    /\ UNCHANGED <<now, ctrFrame>>

\* GetContainerStatus fails: the wait returns the wrapped error
ReadyPollFails ==
    /\ ctr.pc = "poll"
    /\ \E e \in StatusCheckErrors :
          ctr' = [ctr EXCEPT !.pc = "done", !.polls = @ + 1,
                             !.seen = Append(@, "fail"), !.ret = "err",
                             !.err = Wrap("check status", e), !.text = "check"]
    /\ UNCHANGED <<now, ctrFrame>>

\* GetContainerStatus returns a status: the switch
ReadyPoll ==
    /\ ctr.pc = "poll"
    /\ \E st \in RemoteStatuses, m \in ErrorMessages :
          /\ m # "" => st = ContainerStatusError
          /\ LET c1 == [ctr EXCEPT !.polls = @ + 1, !.seen = Append(@, st),
                                   !.errmsg = m]
                 v == ReadyVerdict(st)
             IN  ctr' =
                   CASE v = "ok" -> [c1 EXCEPT !.pc = "done", !.ret = "ok"]
                     [] v = "failed" ->
                          [c1 EXCEPT !.pc = "done", !.ret = "err", !.err = PlainError,
                                     !.text = IF m # "" THEN "failed: msg"
                                              ELSE "failed with error status",
                                     !.msg = m]
                     [] v = "expired" ->
                          [c1 EXCEPT !.pc = "done", !.ret = "err", !.err = PlainError,
                                     !.text = "expired"]
                     [] OTHER -> [c1 EXCEPT !.pc = "sleep"]
    /\ UNCHANGED <<now, ctrFrame>>

\* time.Sleep(pollInterval); continue
ReadySleep ==
    /\ ctr.pc = "sleep"
    /\ now' = now + Second
    /\ ctr' = IF ReadyLoopContinues(ctr.attempt + 1, ctr.maxAttempts)
              THEN [ctr EXCEPT !.pc = "poll", !.attempt = @ + 1]
              ELSE ReadyTimeout([ctr EXCEPT !.attempt = @ + 1])
    /\ UNCHANGED ctrFrame

CtrNext == ReadyStart \/ ReadyPollFails \/ ReadyPoll \/ ReadySleep

SpecContainer == CtrInit /\ [][CtrNext]_vars

\* sequence s is k-1 times IN_PROGRESS followed by FINISHED
IsHappySequence(s) ==
    /\ Len(s) >= 1
    /\ s[Len(s)] = ContainerStatusFinished
    /\ \A i \in 1..(Len(s) - 1) : s[i] = ContainerStatusInProgress

AllInProgress(s) == \A i \in 1..Len(s) : s[i] = ContainerStatusInProgress

\* C10: for a status sequence of k-1 times IN_PROGRESS then FINISHED with
\* k <= maxAttempts the wait keeps polling through the IN_PROGRESS answers
\* and returns success at the poll that sees FINISHED, after exactly k polls.
C10_HappyPath ==
    /\ IsHappySequence(ctr.seen) =>
          /\ ctr.pc = "done" /\ ctr.ret = "ok" /\ ctr.err = NoErr
          /\ ctr.polls = Len(ctr.seen)
          /\ ctr.polls <= ctr.maxAttempts
    /\ (AllInProgress(ctr.seen) /\ Len(ctr.seen) < ctr.maxAttempts) =>
          /\ ctr.pc # "done"
          /\ ctr.polls = Len(ctr.seen)

C10_Witness ==
    /\ ctr.pc = "done" /\ ctr.ret = "ok" /\ ctr.polls = 3
    /\ ctr.seen = <<ContainerStatusInProgress, ContainerStatusInProgress,
                    ContainerStatusFinished>>

\* C11: the first poll that observes ERROR or EXPIRED is the last poll and
\* the wait has returned an error; for ERROR with a non-empty error_message
\* the error text embeds that message, and the EXPIRED error is not the
\* timeout error.
C11_TerminalFailure ==
    \A i \in 1..Len(ctr.seen) :
        ctr.seen[i] \in {ContainerStatusError, ContainerStatusExpired} =>
            /\ i = Len(ctr.seen)
            /\ ctr.polls = i
            /\ ctr.pc = "done" /\ ctr.ret = "err" /\ ctr.err # NoErr
            /\ (ctr.seen[i] = ContainerStatusError /\ ctr.errmsg # "") =>
                  (ctr.text = "failed: msg" /\ ctr.msg = ctr.errmsg)
            /\ ctr.seen[i] = ContainerStatusExpired =>
                  (ctr.text = "expired" /\ ctr.text # ReadyTimeout(ctr).text)

C11_Witness ==
    /\ ctr.pc = "done" /\ ctr.ret = "err"
    /\ ctr.seen = <<ContainerStatusInProgress, ContainerStatusError>>
    /\ ctr.errmsg = "bad asset" /\ ctr.msg = "bad asset"
    /\ ctr.maxAttempts = MaxPollAttempts

\* the wait under the scheduler's guarantee that a runnable goroutine runs
SpecContainerFair == SpecContainer /\ WF_vars(CtrNext)

\* every status seen so far is IN_PROGRESS or a string the client does not know
OnlyWaiting(s) ==
    \A i \in 1..Len(s) : s[i] \in {ContainerStatusInProgress, "PROCESSING"}

\* C12: while the container only reports IN_PROGRESS or unrecognized
\* statuses the wait makes one poll per attempt, at most maxAttempts of
\* them, and it returns only after exactly maxAttempts polls, with the
\* timeout error that names maxAttempts; and every wait terminates.
C12_PollingTimeout ==
    /\ [](OnlyWaiting(ctr.seen) =>
            /\ ctr.polls = Len(ctr.seen)
            /\ ctr.polls <= ctr.maxAttempts
            /\ ctr.pc = "done" =>
                  /\ ctr.polls = ctr.maxAttempts
                  /\ ctr.ret = "err" /\ ctr.text = "timeout"
                  /\ ctr.n = ctr.maxAttempts)
    /\ <>(ctr.pc = "done")

C12_Witness ==
    /\ ctr.pc = "done" /\ ctr.text = "timeout"
    /\ ctr.maxAttempts = 3 /\ ctr.n = 3 /\ ctr.polls = 3
    /\ ctr.seen = <<ContainerStatusInProgress, "PROCESSING", ContainerStatusInProgress>>

\* C13: the first poll that observes FINISHED or PUBLISHED is the last
\* poll and the wait has returned success (so PUBLISHED is never polled
\* again and never ends in the timeout error).
C13_PublishedStops ==
    \A i \in 1..Len(ctr.seen) :
        ctr.seen[i] \in {ContainerStatusFinished, ContainerStatusPublished} =>
            /\ i = Len(ctr.seen)
            /\ ctr.pc = "done" /\ ctr.ret = "ok"

\* C14: a failed status check does not end the wait: the wait returns
\* after a failed check only when the attempt budget is used up.
C14_FailedCheckContinues ==
    (ctr.pc = "done" /\ "fail" \in {ctr.seen[i] : i \in 1..Len(ctr.seen)}) =>
        ctr.polls = ctr.maxAttempts

----------------------------------------------------------------------------
(* The post-creating operations: CreateTextPost (without auto-publish),    *)
(* CreateImagePost, CreateVideoPost, CreateCarouselPost and CreateReply    *)

VideoProcessingMaxAttempts == 2
VideoProcessingPollInterval == Second
DefaultContainerPollMaxAttempts == MaxPollAttempts
ReplyPublishDelay == 10 * Second

PostKinds == {"text", "image", "video", "carousel", "reply"}

\* the errors createContainer and publishContainer can return
PostCallErrors == {NewAPIError(500), wrapNetworkError(FALSE)}

\* what one status check of waitForContainerProcessing can meet: a failed
\* GET, a response that is not 200, a body that does not parse, or a status
ProcOutcomes == {"neterr", "non200", "badjson"} \cup RemoteStatuses

PostInit ==
    /\ now = 0
    /\ rl = NewRateLimiter(0 - Second)
    /\ cfg = ExampleConfig
    /\ pc = "post"
    /\ ctx = "background"
    /\ attempt = 0
    /\ delay = 0
    /\ lastErr = NoErr
    /\ result = NoResult
    /\ obs = ObsInit
    /\ cls = ClsIdle
    /\ mu = Free
    /\ th = [c \in Callers |-> ThIdle]
    /\ ctr = CtrIdle
    /\ opctx = "live"
    /\ \E k \in PostKinds : post = [PostIdle EXCEPT !.kind = k, !.pc = "create"]
    /\ cl = ClIdle
    /\ Ext2Idle

postFrame == <<rl, cfg, ctx, attempt, delay, lastErr, result, obs, cls, mu, th, cl, ext2>>

\* the operation returns err
PostFail(p, err) == [p EXCEPT !.pc = "done", !.ret = "err", !.err = err]

\* the call of waitForContainerReady with the default polling parameters
PostEnterWait ==
    /\ pc' = "container"
    /\ ctr' = [CtrIdle EXCEPT !.maxAttempts = DefaultContainerPollMaxAttempts]

\* createContainer: the create-container call and what follows it
PostCreate ==
    /\ post.pc = "create"
    /\ \/ \E e \in PostCallErrors :
            /\ post' = PostFail([post EXCEPT !.created = TRUE],
                                Wrap("create container", e))
            /\ UNCHANGED <<pc, ctr>>
       \/ /\ post.kind = "video"
          /\ post' = [post EXCEPT !.created = TRUE, !.createOK = TRUE,
                                  !.pc = "vcheck", !.vattempt = 1]
          /\ UNCHANGED <<pc, ctr>>
       \/ /\ post.kind = "reply"
          /\ post' = [post EXCEPT !.created = TRUE, !.createOK = TRUE, !.pc = "delay"]
          /\ UNCHANGED <<pc, ctr>>
       \/ /\ post.kind \in {"text", "image", "carousel"}
          /\ post' = [post EXCEPT !.created = TRUE, !.createOK = TRUE, !.pc = "ready"]
          /\ PostEnterWait
    /\ UNCHANGED <<now, opctx, postFrame>>

\* the return of waitForContainerProcessing when the attempts are used up
ProcExhausted(o) ==
    CASE o = "neterr" -> Wrap("status check failed", wrapNetworkError(FALSE))
      [] o = "non200" -> NewAPIError(503)
      [] o = "badjson" -> Wrap("parse", PlainError)
      [] o = ContainerStatusInProgress -> NewAPIError(408)
      [] OTHER -> NewAPIError(500)

\* one iteration of waitForContainerProcessing: the context check, the
\* status check and the switch
ProcCheck ==
    /\ post.pc = "vcheck"
    /\ IF opctx = "cancelled"
       THEN /\ post' = PostFail([post EXCEPT !.vret = "err"],
                                Wrap("video processing failed", CtxErr))
            /\ UNCHANGED <<pc, ctr>>
       ELSE \E o \in ProcOutcomes :
              LET p1 == [post EXCEPT !.vpolls = @ + 1]
              IN  CASE o \in {ContainerStatusFinished, ContainerStatusPublished} ->
                         /\ post' = [p1 EXCEPT !.vret = "ok", !.pc = "ready"]
                         /\ PostEnterWait
                    [] o = ContainerStatusError ->
                         /\ post' = PostFail([p1 EXCEPT !.vret = "err"],
                                             Wrap("video processing failed", NewAPIError(500)))
                         /\ UNCHANGED <<pc, ctr>>
                    [] o = ContainerStatusExpired ->
                         /\ post' = PostFail([p1 EXCEPT !.vret = "err"],
                                             Wrap("video processing failed", NewAPIError(410)))
                         /\ UNCHANGED <<pc, ctr>>
                    [] OTHER ->
                         /\ post' = IF post.vattempt < VideoProcessingMaxAttempts
                                    THEN [p1 EXCEPT !.pc = "vsleep"]
                                    ELSE PostFail([p1 EXCEPT !.vret = "err"],
                                                  Wrap("video processing failed",
                                                       ProcExhausted(o)))
                         /\ UNCHANGED <<pc, ctr>>
    /\ UNCHANGED <<now, opctx, postFrame>>

\* time.Sleep(VideoProcessingPollInterval); continue
ProcSleep ==
    /\ post.pc = "vsleep"
    /\ now' = now + VideoProcessingPollInterval
    /\ post' = [post EXCEPT !.pc = "vcheck", !.vattempt = @ + 1]
    /\ UNCHANGED <<pc, ctr, opctx, postFrame>>

\* mutant: the error of the wait is dropped
PostWaitDone_IgnoresError ==
    /\ post.pc = "ready"
    /\ ctr.pc = "done"
    /\ post' = [post EXCEPT !.pc = "publish"]
    /\ UNCHANGED <<now, pc, ctr, opctx, postFrame>>

\* waitForContainerReady returned
PostWaitDone ==
    /\ post.pc = "ready"
    /\ ctr.pc = "done"
    /\ post' = IF ctr.ret = "ok"
               THEN [post EXCEPT !.pc = "publish"]
               ELSE PostFail(post, Wrap("container not ready", ctr.err))
    /\ UNCHANGED <<now, pc, ctr, opctx, postFrame>>

\* mutant: the delay does not watch the context
ReplyDelay_NoCancel ==
    /\ post.pc = "delay"
    /\ now' = now + ReplyPublishDelay
    /\ post' = [post EXCEPT !.pc = "publish", !.slept = ReplyPublishDelay]
    /\ UNCHANGED <<pc, ctr, opctx, postFrame>>

\* the select of CreateReply: ctx.Done() or time.After(ReplyPublishDelay)
ReplyDelay ==
    /\ post.pc = "delay"
    /\ IF opctx = "cancelled"
       THEN /\ post' = PostFail(post, CtxErr)
            /\ UNCHANGED now
       ELSE /\ now' = now + ReplyPublishDelay
            /\ post' = [post EXCEPT !.pc = "publish", !.slept = ReplyPublishDelay]
    /\ UNCHANGED <<pc, ctr, opctx, postFrame>>

\* publishContainer: the publish call
PostPublish ==
    /\ post.pc = "publish"
    /\ LET p1 == [post EXCEPT !.published = TRUE,
                              !.pollsAtPublish = ctr.polls + post.vpolls]
       IN  \/ post' = [p1 EXCEPT !.pc = "done", !.ret = "ok"]
           \/ \E e \in PostCallErrors : post' = PostFail(p1, Wrap("publish", e))
    /\ UNCHANGED <<now, pc, ctr, opctx, postFrame>>

\* the caller cancels the context of the operation while the operation is
\* in one of its sleeps
PostCancel ==
    /\ opctx = "live"
    /\ \/ post.pc = "ready" /\ ctr.pc = "sleep"
       \/ post.pc \in {"vsleep", "delay"}
    /\ opctx' = "cancelled"
    /\ post' = [post EXCEPT !.cancelAt = now,
                            !.cancelIn = CASE post.pc = "ready" -> "poll"
                                           [] post.pc = "vsleep" -> "vpoll"
                                           [] OTHER -> "delay",
                            !.pollsAtCancel = ctr.polls + post.vpolls]
    /\ UNCHANGED <<now, pc, ctr, postFrame>>

PostNext ==
    \/ PostCreate \/ ProcCheck \/ ProcSleep
    \/ ReadyStart \/ ReadyPollFails \/ ReadyPoll \/ ReadySleep
    \/ PostWaitDone \/ ReplyDelay \/ PostPublish \/ PostCancel

SpecPost == PostInit /\ [][PostNext]_vars

\* C15: once the context is cancelled during a poll-interval sleep no
\* further status poll is made, the publish call is never issued and the
\* operation ends with a cancellation error.
C15_CancelDuringPoll ==
    post.cancelIn \in {"poll", "vpoll"} =>
        /\ ctr.polls + post.vpolls = post.pollsAtCancel
        /\ ~post.published
        /\ post.pc = "done" => (post.ret = "err" /\ post.err.kind = "Context")

\* C17: CreateReply makes no status poll; its publish call follows a
\* successful create-container call and the full ReplyPublishDelay; and
\* when the context is cancelled during the delay the publish call is
\* never issued and the operation returns the cancellation error.
C17_ReplyDelay ==
    post.kind = "reply" =>
        /\ ctr.polls = 0 /\ post.vpolls = 0
        /\ post.pc \in {"delay", "publish"} => post.createOK
        /\ post.published =>
              (post.createOK /\ post.slept = ReplyPublishDelay /\ now >= ReplyPublishDelay)
        /\ post.cancelIn = "delay" =>
              /\ ~post.published
              /\ post.pc = "done" => (post.ret = "err" /\ post.err = CtxErr)

C17_Witness ==
    /\ post.kind = "reply" /\ post.pc = "done"
    /\ post.cancelIn = "delay" /\ post.err = CtxErr /\ ~post.published

\* C18: in the polling operations no status poll precedes a successful
\* create-container call; the publish call is issued only after every wait
\* returned success, and no poll follows it; it is never issued after a
\* failed create or after a wait that ended in an error.
C18_StrictOrder ==
    post.kind \in {"text", "image", "video", "carousel"} =>
        /\ ctr.polls + post.vpolls > 0 => post.createOK
        /\ ctr.pc # "idle" => (post.createOK /\ (post.kind = "video" => post.vret = "ok"))
        /\ post.published =>
              /\ post.createOK
              /\ ctr.pc = "done" /\ ctr.ret = "ok" /\ ctr.polls >= 1
              /\ post.kind = "video" => post.vret = "ok"
              /\ post.pollsAtPublish = ctr.polls + post.vpolls
        /\ (post.created /\ ~post.createOK) =>
              (~post.published /\ ctr.polls + post.vpolls = 0)
        /\ (ctr.ret = "err" \/ post.vret = "err") => ~post.published

C18_Witness ==
    /\ post.kind = "video" /\ post.pc = "done" /\ post.ret = "ok"
    /\ post.published /\ post.vpolls = 2 /\ ctr.polls = 2

\* C16: once the context of a public operation is cancelled during the
\* backoff sleep or the rate-limit wait of its Do call, no further attempt
\* is made and the call ends with a cancellation error.
C16_OperationCancel ==
    opctx = "cancelled" =>
        /\ pc # "exec"
        /\ pc = "done" => (result.err # NoErr /\ result.err.kind = "Context")

\* C19: the RateLimitError of a 429 response carries the value of the
\* Retry-After header when that header is present, and its RetryAfter is 0
\* only when the response has neither Retry-After nor X-RateLimit-Reset.
C19_RetryAfterHeader ==
    (cls.stage >= 1 /\ cls.status = 429) =>
        /\ IsRateLimitError(cls.first)
        /\ cls.hdr.retryAfter > 0 => cls.first.retryAfter = cls.hdr.retryAfter
        /\ cls.first.retryAfter = 0 =>
              (cls.hdr.retryAfter = 0 /\ cls.hdr.reset = ZeroTime)

----------------------------------------------------------------------------
(* Client.Clone: NewClient on a copy of the original's Config *)

MaxTokens == 2

\* token values; NoToken is a nil *TokenInfo
NoToken == 0
Tokens == 1..MaxTokens

Clients == {"orig", "clone"}
Other(who) == IF who = "orig" THEN "clone" ELSE "orig"

\* the TokenStorage objects: 1 is the original's (the caller's, or the
\* MemoryTokenStorage NewClient made for it), 2 the one NewClient makes
\* when the Config it is given has no TokenStorage
StorageIds == {1, 2}

ClInit ==
    /\ now = 0
    /\ rl = NewRateLimiter(0 - Second)
    /\ cfg = ExampleConfig
    /\ pc = "client"
    /\ ctx = "background"
    /\ attempt = 0
    /\ delay = 0
    /\ lastErr = NoErr
    /\ result = NoResult
    /\ obs = ObsInit
    /\ cls = ClsIdle
    /\ mu = Free
    /\ th = [c \in Callers |-> ThIdle]
    /\ ctr = CtrIdle
    /\ opctx = "live"
    /\ post = PostIdle
    /\ cl = ClIdle
    /\ Ext2Idle

clFrame == <<doVars, cls, mu, th, ctr, opctx, post, ext2>>

\* what a client can observe of its own state: the token in memory, the
\* token in its storage and the fields of its rate limiter
View(c, who) ==
    [tok |-> c.tok[who], stored |-> c.store[c.sid[who]], lim |-> c.lim[who]]

\* NewClient(config) for the original: config.TokenStorage is the caller's
\* storage (which may hold a token) or nil; the token is loaded from it
NewClientOp ==
    /\ cl.pc = "none"
    /\ \E custom \in BOOLEAN, t \in {NoToken} \cup Tokens :
          /\ ~custom => t = NoToken
          /\ cl' = [pc |-> "orig",
                    configStorage |-> IF custom THEN 1 ELSE 0,
                    sid |-> [w \in Clients |-> 1],
                    store |-> [i \in StorageIds |-> IF i = 1 THEN t ELSE NoToken],
                    tok |-> [w \in Clients |-> IF w = "orig" THEN t ELSE NoToken],
                    lim |-> [w \in Clients |-> NewRateLimiter(now)],
                    last |-> [who |-> "none", op |-> "none",
                              before |-> [tok |-> NoToken, stored |-> NoToken,
                                          lim |-> NewRateLimiter(now)]]]
    /\ UNCHANGED clFrame

\* Clone: GetConfig copies the Config struct, TokenStorage field included,
\* and NewClient builds the clone from the copy
CloneOp ==
    /\ cl.pc = "orig"
    /\ LET s == IF cl.configStorage # 0 THEN cl.configStorage ELSE 2
       IN  cl' = [cl EXCEPT !.pc = "cloned",
                            !.sid["clone"] = s,
                            !.tok["clone"] = cl.store[s],
                            !.lim["clone"] = NewRateLimiter(now),
                            !.last.who = "none", !.last.op = "none"]
    /\ UNCHANGED clFrame

\* the state of the other client before an operation on who
Before(who, op) == [who |-> who, op |-> op, before |-> View(cl, Other(who))]

\* who is a client that exists
Exists(who) == cl.pc = "cloned" \/ (cl.pc = "orig" /\ who = "orig")

SetTokenInfoOp(who) ==
    /\ Exists(who)
    /\ \E t \in Tokens :
          cl' = [cl EXCEPT !.tok[who] = t, !.store[cl.sid[who]] = t,
                           !.last = Before(who, "SetTokenInfo")]
    /\ UNCHANGED clFrame

ClearTokenOp(who) ==
    /\ Exists(who)
    /\ cl' = [cl EXCEPT !.tok[who] = NoToken, !.store[cl.sid[who]] = NoToken,
                        !.last = Before(who, "ClearToken")]
    /\ UNCHANGED clFrame

\* a 429 response to a request of who: MarkRateLimited on its limiter
RateLimitEvent(who) ==
    /\ Exists(who)
    /\ ~cl.lim[who].rateLimited
    /\ cl' = [cl EXCEPT !.lim[who] = MarkRateLimited(@, now + ResetAhead, now),
                        !.last = Before(who, "MarkRateLimited")]
    /\ UNCHANGED clFrame

ClNext ==
    \/ NewClientOp \/ CloneOp
    \/ \E who \in Clients :
          SetTokenInfoOp(who) \/ ClearTokenOp(who) \/ RateLimitEvent(who)

SpecClone == ClInit /\ [][ClNext]_vars

\* C20: an operation on the clone leaves the original's token, stored token
\* and rate-limiter state as they were, and an operation on the original
\* leaves the clone's.
C20_CloneIsolation ==
    (cl.pc = "cloned" /\ cl.last.who # "none") =>
        View(cl, Other(cl.last.who)) = cl.last.before

----------------------------------------------------------------------------
(* executeRequest with a logger and with a nil logger *)

\* whether closing the response body can fail: only when there is a body
CloseFailures(o) == IF o.t \in {"resp", "readFail"} THEN BOOLEAN ELSE {FALSE}

\* one run of executeRequest: logRequest and logResponse return at once
\* for a nil logger; the deferred close of the body calls h.logger.Error
\* when Close fails, which is a call on a nil interface when there is no
\* logger.  The limiter's own log functions check rl.logger
executeRequestRun(logger, o, closeFails, r, t) ==
    IF closeFails /\ logger = "nil"
    THEN [ret |-> "panic", err |-> NoErr, limiter |-> executeRequestLimiter(r, o, t)]
    ELSE [ret |-> "returned", err |-> executeRequestErr(o),
          limiter |-> executeRequestLimiter(r, o, t)]

LgInit ==
    /\ now = 0
    /\ rl \in InitLimiters
    /\ cfg = ExampleConfig
    /\ pc = "logger"
    /\ ctx = "background"
    /\ attempt = 0
    /\ delay = 0
    /\ lastErr = NoErr
    /\ result = NoResult
    /\ obs = ObsInit
    /\ cls = ClsIdle
    /\ mu = Free
    /\ th = [c \in Callers |-> ThIdle]
    /\ ctr = CtrIdle
    /\ opctx = "live"
    /\ post = PostIdle
    /\ cl = ClIdle
    /\ \E o \in Outcomes(0) : \E f \in CloseFailures(o) :
          lg = [stage |-> 0, o |-> o, closeFails |-> f,
                withLogger |-> [ret |-> "none", err |-> NoErr, limiter |-> rl],
                withNil |-> [ret |-> "none", err |-> NoErr, limiter |-> rl]]
    /\ rd = RdIdle
    /\ Ext3Idle

lgFrame == <<doVars, cls, mu, th, ctr, opctx, post, cl, rd, ext3>>

\* executeRequest of a client built with Config.Logger set
ExecLogged ==
    /\ pc = "logger"
    /\ lg.stage = 0
    /\ lg' = [lg EXCEPT !.stage = 1,
                        !.withLogger = executeRequestRun("set", lg.o, lg.closeFails, rl, now)]
    /\ UNCHANGED lgFrame

\* the same request by a client built with a nil Config.Logger
ExecNilLogger ==
    /\ pc = "logger"
    /\ lg.stage = 1
    /\ lg' = [lg EXCEPT !.stage = 2,
                        !.withNil = executeRequestRun("nil", lg.o, lg.closeFails, rl, now)]
    /\ UNCHANGED lgFrame

LgNext == ExecLogged \/ ExecNilLogger

SpecLogger == LgInit /\ [][LgNext]_vars

\* C21: executeRequest without a logger returns what it returns with a
\* logger and leaves the limiter the same, whatever the request meets, a
\* failing close of the response body included.
C21_NilLogger ==
    lg.stage = 2 => lg.withNil = lg.withLogger

----------------------------------------------------------------------------
(* Client.DisableRateLimiting and EnableRateLimiting *)

MaxRequests == 3

\* the client's accessors of its rate limiter
RateLimitAccessors ==
    {"GetRateLimitStatus", "IsRateLimited", "IsNearRateLimit", "WaitForRateLimit"}

\* NewClient: Client.rateLimiter and HTTPClient.rateLimiter are one limiter
RdInit ==
    /\ now = 0
    /\ rl = NewRateLimiter(0 - Second)
    /\ cfg = [ExampleConfig EXCEPT !.MaxRetries = 0]
    /\ pc = "switch"
    /\ ctx = "background"
    /\ attempt = 0
    /\ delay = 0
    /\ lastErr = NoErr
    /\ result = NoResult
    /\ obs = ObsInit
    /\ cls = ClsIdle
    /\ mu = Free
    /\ th = [c \in Callers |-> ThIdle]
    /\ ctr = CtrIdle
    /\ opctx = "live"
    /\ post = PostIdle
    /\ cl = ClIdle
    /\ lg = LgIdle
    /\ rd = [RdIdle EXCEPT !.pc = "run"]
    /\ Ext3Idle

rdFrame == <<cfg, pc, ctx, attempt, delay, lastErr, result, obs, cls, mu, th, ctr,
             opctx, post, cl, lg, ext3>>

\* c.rateLimiter = nil; the HTTPClient keeps its pointer
DisableRateLimiting ==
    /\ rd.pc = "run"
    /\ rd' = [rd EXCEPT !.limiter = "nil", !.disabled = TRUE,
                        !.op = "DisableRateLimiting", !.ret = "ok"]
    /\ UNCHANGED <<now, rl, rdFrame>>

\* a new limiter for the Client when it has none; the HTTPClient keeps its own
EnableRateLimiting ==
    /\ rd.pc = "run"
    /\ rd' = [rd EXCEPT !.limiter = IF @ = "nil" THEN "own" ELSE @,
                        !.disabled = FALSE,
                        !.op = "EnableRateLimiting", !.ret = "ok"]
    /\ UNCHANGED <<now, rl, rdFrame>>

\* c.rateLimiter.GetStatus() and the like: a method that locks rl.mu,
\* called on a nil *RateLimiter when the limiter is disabled
Accessor ==
    /\ rd.pc = "run"
    /\ \E a \in RateLimitAccessors :
          rd' = IF rd.limiter = "nil"
                THEN [rd EXCEPT !.pc = "crashed", !.op = a, !.ret = "panic"]
                ELSE [rd EXCEPT !.op = a, !.ret = "ok"]
    /\ UNCHANGED <<now, rl, rdFrame>>

\* one request of the client: HTTPClient.Do with h.rateLimiter, which is
\* answered 200 or 429
Request ==
    /\ rd.pc = "run"
    /\ rd.requests < MaxRequests
    /\ \E st \in {200, 429}, h \in Headers(now) :
          LET wait == ShouldWaitValue(rl, now)
              rl0 == ShouldWaitState(rl, now)
              t1 == IF wait THEN now + WaitTime(rl0, now) ELSE now
              rl1 == IF wait
                     THEN [rl0 EXCEPT !.rateLimited = FALSE, !.lastRequestTime = t1]
                     ELSE rl0
              o == [t |-> "resp", status |-> st, body |-> NoBody, hdr |-> h]
              rl2 == executeRequestLimiter(rl1, o, t1)
              rl3 == IF executeRequestErr(o) = NoErr
                     THEN UpdateFromHeaders(rl2, parseRateLimitHeaders(h))
                     ELSE rl2
          IN  /\ now' = t1
              /\ rl' = rl3
              /\ rd' = [rd EXCEPT !.op = "Request", !.ret = "ok",
                                  !.waited = wait,
                                  !.marked = (st = 429 /\ rl2 # rl1),
                                  !.requests = @ + 1]
    /\ UNCHANGED rdFrame

\* time passes between the calls
RdTick ==
    /\ rd.pc = "run"
    /\ now < MaxRequests * ResetAhead
    /\ now' = now + 1
    /\ UNCHANGED <<rl, rd, rdFrame>>

RdNext ==
    DisableRateLimiting \/ EnableRateLimiting \/ Accessor \/ Request \/ RdTick

SpecDisable == RdInit /\ [][RdNext]_vars

\* C22: while rate limiting is disabled no request waits on the limiter
\* or changes limiter state, and no accessor of the client crashes.
C22_Disabled ==
    rd.disabled =>
        /\ rd.op = "Request" => (~rd.waited /\ ~rd.marked)
        /\ rd.ret # "panic"

\* C27: a physical call starts only when not (rateLimited and now <
\* resetTime); the retry that follows a 429 inside one Do is not sent before
\* the reset time recorded for that 429.
C27_NoCallWhileLimited ==
    [][obs'.calls = obs.calls + 1 => ~(rl.rateLimited /\ now < rl.resetTime)]_vars

\* C23: in HTTPClient.Do the flag rateLimited is raised, and the limiter
\* marked, only by an attempt whose physical call returned 429, and such
\* an attempt calls MarkRateLimited exactly once; no other step of Do sets
\* the flag.
C23_MarkedOnlyBy429 ==
    [][/\ (rl'.rateLimited /\ ~rl.rateLimited) =>
             (obs'.calls = obs.calls + 1 /\ obs'.last.t = "resp" /\ obs'.last.status = 429)
       /\ rl'.lastRateLimitTime # rl.lastRateLimitTime =>
             (obs'.calls = obs.calls + 1 /\ obs'.last.t = "resp" /\ obs'.last.status = 429)
       /\ obs'.calls = obs.calls + 1 =>
             /\ obs'.marks = (IF obs'.last.t = "resp" /\ obs'.last.status = 429 THEN 1 ELSE 0)
             /\ obs'.marks = 1 => (rl'.rateLimited /\ rl'.lastRateLimitTime = now)
      ]_vars

C23_Witness ==
    /\ obs.calls = 2 /\ obs.last.t = "resp" /\ obs.last.status = 429 /\ obs.marks = 1
    /\ rl.rateLimited /\ rl.lastRateLimitTime = now /\ now > 0

----------------------------------------------------------------------------
(* One update of the limiter as a function of the limiter and the response *)

AtInit ==
    /\ now = 0
    /\ rl \in InitLimiters
    /\ cfg = ExampleConfig
    /\ pc = "update"
    /\ ctx = "background"
    /\ attempt = 0
    /\ delay = 0
    /\ lastErr = NoErr
    /\ result = NoResult
    /\ obs = ObsInit
    /\ cls = ClsIdle
    /\ mu = Free
    /\ th = [c \in Callers |-> ThIdle]
    /\ ctr = CtrIdle
    /\ opctx = "live"
    /\ post = PostIdle
    /\ cl = ClIdle
    /\ lg = LgIdle
    /\ rd = RdIdle
    /\ tk = TkIdle
    /\ ts = TsIdle
    /\ it = ItIdle
    /\ \E st \in Statuses, b \in Bodies, h \in Headers(0) :
          at = [stage |-> 0, op |-> "none", before |-> rl,
                o |-> [t |-> "resp", status |-> st, body |-> b, hdr |-> h]]

atFrame == <<now, cfg, pc, ctx, attempt, delay, lastErr, result, obs, cls, mu, th, ctr,
             opctx, post, cl, lg, rd, tk, ts, it>>

\* one iteration of the loop of Do whose physical call got the response at.o
AttemptOnce ==
    /\ pc = "update"
    /\ at.stage = 0
    /\ rl' = DoExecLimiter(rl, at.o, now)
    /\ at' = [at EXCEPT !.stage = 1, !.op = "attempt"]
    /\ UNCHANGED atFrame

\* UpdateFromHeaders with the header snapshot of the response at.o
HeadersOnce ==
    /\ pc = "update"
    /\ at.stage = 0
    /\ ~parseRateLimitHeaders(at.o.hdr).nil
    /\ rl' = UpdateFromHeaders(rl, parseRateLimitHeaders(at.o.hdr))
    /\ at' = [at EXCEPT !.stage = 1, !.op = "headers"]
    /\ UNCHANGED atFrame

AtNext == AttemptOnce \/ HeadersOnce

SpecAttempt == AtInit /\ [][AtNext]_vars

\* C24: after a physical call whose response carries rate-limit headers,
\* with a success or an error status, the limiter's limit, remaining and
\* resetTime are the values of those headers.
C24_HeadersFedAlways ==
    (at.stage = 1 /\ at.op = "attempt" /\ at.o.hdr.limit > 0) =>
        /\ rl.limit = at.o.hdr.limit
        /\ rl.remaining = at.o.hdr.remaining
        /\ rl.resetTime = at.o.hdr.reset

\* C25: UpdateFromHeaders changes neither what ShouldWait returns at that
\* instant nor the instant until which a rate-limited caller waits.
C25_HeadersAdvisory ==
    (at.stage = 1 /\ at.op = "headers") =>
        /\ ShouldWaitValue(rl, now) = ShouldWaitValue(at.before, now)
        /\ ShouldWaitValue(at.before, now) =>
              now + WaitTime(rl, now) = now + WaitTime(at.before, now)

----------------------------------------------------------------------------
(* Client.mu, the RWMutex that guards the token: GetTokenDebugInfo reads   *)
(* under RLock and calls methods that take RLock again; SetTokenInfo and   *)
(* ClearToken write under Lock.  A Lock that has announced itself blocks   *)
(* every later RLock until it has been released.                           *)

TokenOps == {"GetTokenDebugInfo", "SetTokenInfo", "ClearToken"}

\* the methods GetTokenDebugInfo calls while it holds the read lock, in
\* order; the last three only when c.tokenInfo is not nil
DebugCalls == <<"IsAuthenticated", "IsTokenExpired", "IsTokenExpiringSoon",
                "IsTokenExpiringSoon", "IsTokenExpiringSoon">>

\* how many of them a call makes when the token is tok
DebugCallCount(tok) == IF tok = "none" THEN 2 ELSE Len(DebugCalls)

GoIdle == [op |-> "none", pc |-> "idle", k |-> 0, calls |-> 0]

TkInit ==
    /\ now = 0
    /\ rl = NewRateLimiter(0 - Second)
    /\ cfg = ExampleConfig
    /\ pc = "token"
    /\ ctx = "background"
    /\ attempt = 0
    /\ delay = 0
    /\ lastErr = NoErr
    /\ result = NoResult
    /\ obs = ObsInit
    /\ cls = ClsIdle
    /\ mu = Free
    /\ th = [c \in Callers |-> ThIdle]
    /\ ctr = CtrIdle
    /\ opctx = "live"
    /\ post = PostIdle
    /\ cl = ClIdle
    /\ lg = LgIdle
    /\ rd = RdIdle
    /\ at = AtIdle
    /\ ts = TsIdle
    /\ it = ItIdle
    /\ \E tok \in {"none", "set"} :
          tk = [pc |-> "run", token |-> tok, readers |-> 0, writer |-> Free,
                g |-> [c \in Callers |-> GoIdle]]

tkFrame == <<doVars, cls, mu, th, ctr, opctx, post, cl, lg, rd, at, ts, it>>

\* the calls made so far on the client by the goroutines in set S
RECURSIVE TokenCalls(_)
TokenCalls(S) ==
    IF S = {} THEN 0
    ELSE LET c == CHOOSE x \in S : TRUE
         IN  tk.g[c].calls + TokenCalls(S \ {c})

\* goroutine c calls a method of the client and arrives at its first lock
TokenCall(c) ==
    /\ tk.pc = "run"
    /\ tk.g[c].pc = "idle"
    /\ TokenCalls(Callers) < MaxCalls
    /\ \E op \in TokenOps :
          tk' = [tk EXCEPT !.g[c] = [op |-> op, k |-> 0, calls |-> @.calls + 1,
                    pc |-> IF op = "GetTokenDebugInfo" THEN "rlock" ELSE "lock"]]
    /\ UNCHANGED tkFrame

\* c.mu.RLock() of GetTokenDebugInfo
DebugRLock(c) ==
    /\ tk.pc = "run"
    /\ tk.g[c].pc = "rlock"
    /\ tk.writer = Free
    /\ tk' = [tk EXCEPT !.readers = @ + 1, !.g[c].pc = "inner"]
    /\ UNCHANGED tkFrame

\* GetTokenDebugInfo calls DebugCalls[k + 1], which takes c.mu.RLock(),
\* reads and releases it again
DebugInner(c) ==
    /\ tk.pc = "run"
    /\ tk.g[c].pc = "inner"
    /\ tk.writer = Free
    /\ tk' = [tk EXCEPT !.g[c].k = @ + 1,
                        !.g[c].pc = IF tk.g[c].k + 1 = DebugCallCount(tk.token)
                                    THEN "runlock" ELSE "inner"]
    /\ UNCHANGED tkFrame

\* the deferred c.mu.RUnlock() of GetTokenDebugInfo
DebugRUnlock(c) ==
    /\ tk.pc = "run"
    /\ tk.g[c].pc = "runlock"
    /\ tk' = [tk EXCEPT !.readers = @ - 1, !.g[c].pc = "idle"]
    /\ UNCHANGED tkFrame

\* c.mu.Lock() of SetTokenInfo or ClearToken announces itself: later
\* readers and writers wait behind it
WriterAnnounce(c) ==
    /\ tk.pc = "run"
    /\ tk.g[c].pc = "lock"
    /\ tk.writer = Free
    /\ tk' = [tk EXCEPT !.writer = c, !.g[c].pc = "drain"]
    /\ UNCHANGED tkFrame

\* c.mu.Lock() returns once the readers that hold the lock have left
WriterAcquire(c) ==
    /\ tk.pc = "run"
    /\ tk.g[c].pc = "drain"
    /\ tk.readers = 0
    /\ tk' = [tk EXCEPT !.g[c].pc = "held"]
    /\ UNCHANGED tkFrame

\* the body of SetTokenInfo or ClearToken and its deferred c.mu.Unlock()
WriterUnlock(c) ==
    /\ tk.pc = "run"
    /\ tk.g[c].pc = "held"
    /\ tk' = [tk EXCEPT !.token = IF tk.g[c].op = "SetTokenInfo" THEN "set" ELSE "none",
                        !.writer = Free, !.g[c].pc = "idle"]
    /\ UNCHANGED tkFrame

\* a step of a call that is under way
TokenStep(c) ==
    \/ DebugRLock(c)
    \/ DebugInner(c)
    \/ DebugRUnlock(c)
    \/ WriterAnnounce(c)
    \/ WriterAcquire(c)
    \/ WriterUnlock(c)

TkNext ==
    \/ \E c \in Callers : TokenCall(c)
    \/ \E c \in Callers : DebugRLock(c)
    \/ \E c \in Callers : DebugInner(c)
    \/ \E c \in Callers : DebugRUnlock(c)
    \/ \E c \in Callers : WriterAnnounce(c)
    \/ \E c \in Callers : WriterAcquire(c)
    \/ \E c \in Callers : WriterUnlock(c)

SpecTokenLock == TkInit /\ [][TkNext]_vars

\* C28: under any interleaving of GetTokenDebugInfo with SetTokenInfo or
\* ClearToken every call eventually returns: whenever a call is under way,
\* some call under way can take its next step.
C28_NoTokenDeadlock ==
    (tk.pc = "run" /\ \E c \in Callers : tk.g[c].pc # "idle") =>
        \E c \in Callers : ENABLED TokenStep(c)

----------------------------------------------------------------------------
(* The token in memory and in the TokenStorage: SetTokenInfo, ClearToken   *)
(* and LoadTokenFromStorage                                                *)

\* TokenInfo.ExpiresAt and TokenInfo.AccessToken of token t; the access
\* token "" is 0
ExpiresAt(t) == t
AccessTokenOf(t) == IF t = NoToken THEN 0 ELSE 10 + t

\* the storages: the default MemoryTokenStorage, whose methods cannot fail
\* on a stored token, and a storage of the caller whose Store, Load and
\* Delete can return an error
StorageKinds == {"memory", "custom"}

\* whether a call of a method of the storage may fail
StorageFailures(kind) == IF kind = "custom" THEN BOOLEAN ELSE {FALSE}

\* NewClient: the token the storage holds is loaded without a look at its
\* expiry
TsInit ==
    /\ now = 0
    /\ rl = NewRateLimiter(0 - Second)
    /\ cfg = ExampleConfig
    /\ pc = "tokens"
    /\ ctx = "background"
    /\ attempt = 0
    /\ delay = 0
    /\ lastErr = NoErr
    /\ result = NoResult
    /\ obs = ObsInit
    /\ cls = ClsIdle
    /\ mu = Free
    /\ th = [c \in Callers |-> ThIdle]
    /\ ctr = CtrIdle
    /\ opctx = "live"
    /\ post = PostIdle
    /\ cl = ClIdle
    /\ lg = LgIdle
    /\ rd = RdIdle
    /\ at = AtIdle
    /\ tk = TkIdle
    /\ it = ItIdle
    /\ \E kind \in StorageKinds, t \in {NoToken} \cup Tokens :
          /\ kind = "memory" => t = NoToken
          /\ ts = [pc |-> "run", kind |-> kind, stored |-> t,
                   tokenInfo |-> t, accessToken |-> AccessTokenOf(t),
                   op |-> "none", ret |-> "none", calls |-> 0,
                   prevInfo |-> t, prevAccess |-> AccessTokenOf(t)]

tsFrame == <<rl, cfg, pc, ctx, attempt, delay, lastErr, result, obs, cls, mu, th, ctr,
             opctx, post, cl, lg, rd, at, tk, it>>

\* the client after a call of op that left tokenInfo info and the storage
\* st and returned ret
TokenResult(op, info, st, ret) ==
    [ts EXCEPT !.op = op, !.ret = ret, !.calls = @ + 1,
               !.prevInfo = ts.tokenInfo, !.prevAccess = ts.accessToken,
               !.tokenInfo = info, !.accessToken = AccessTokenOf(info),
               !.stored = st]

\* Client.SetTokenInfo(t): the fields are assigned, then Store is called
SetTokenInfoRun(op, t, storeFails) ==
    IF storeFails
    THEN TokenResult(op, t, ts.stored, "err")
    ELSE TokenResult(op, t, t, "nil")

SetTokenInfoCall ==
    /\ ts.pc = "run"
    /\ ts.calls < MaxCalls
    /\ \E t \in Tokens, storeFails \in StorageFailures(ts.kind) :
          ts' = SetTokenInfoRun("SetTokenInfo", t, storeFails)
    /\ UNCHANGED <<now, tsFrame>>

\* Client.ClearToken: the fields are cleared, then Delete is called
ClearTokenCall ==
    /\ ts.pc = "run"
    /\ ts.calls < MaxCalls
    /\ \E deleteFails \in StorageFailures(ts.kind) :
          ts' = IF deleteFails
                THEN TokenResult("ClearToken", NoToken, ts.stored, "err")
                ELSE TokenResult("ClearToken", NoToken, NoToken, "nil")
    /\ UNCHANGED <<now, tsFrame>>

\* Client.LoadTokenFromStorage
LoadTokenFromStorageCall ==
    /\ ts.pc = "run"
    /\ ts.calls < MaxCalls
    /\ \E loadFails \in StorageFailures(ts.kind),
          deleteFails \in StorageFailures(ts.kind),
          storeFails \in StorageFailures(ts.kind) :
          ts' = IF ts.stored = NoToken \/ loadFails
                THEN TokenResult("LoadTokenFromStorage", ts.tokenInfo, ts.stored, "err")
                ELSE IF now > ExpiresAt(ts.stored)
                THEN IF deleteFails
                     THEN TokenResult("LoadTokenFromStorage", ts.tokenInfo, ts.stored, "err")
                     ELSE TokenResult("LoadTokenFromStorage", ts.tokenInfo, NoToken, "err")
                ELSE SetTokenInfoRun("LoadTokenFromStorage", ts.stored, storeFails)
    /\ UNCHANGED <<now, tsFrame>>

\* time passes
TsTick ==
    /\ ts.pc = "run"
    /\ now <= MaxTokens
    /\ now' = now + 1
    /\ UNCHANGED <<ts, tsFrame>>

TsNext == SetTokenInfoCall \/ ClearTokenCall \/ LoadTokenFromStorageCall \/ TsTick

SpecToken == TsInit /\ [][TsNext]_vars

\* C29: after any sequence of SetTokenInfo, ClearToken and
\* LoadTokenFromStorage calls, calls that return an error included, the
\* token in memory equals the token the storage holds, accessToken equals
\* tokenInfo.AccessToken, and a call that returned an error has left the
\* token in memory unchanged.
C29_TokenMatchesStorage ==
    (ts.pc = "run" /\ ts.op # "none") =>
        /\ ts.tokenInfo = ts.stored
        /\ ts.accessToken = AccessTokenOf(ts.tokenInfo)
        /\ ts.ret = "err" =>
              (ts.tokenInfo = ts.prevInfo /\ ts.accessToken = ts.prevAccess)

----------------------------------------------------------------------------
(* Pagination: PostIterator, ReplyIterator and SearchIterator.  The three  *)
(* share one state machine over nextCursor and done; the SearchIterator    *)
(* also has a searchType.  The cursor "" is 0.                             *)

MaxPages == 3
MaxCursors == 2

PageCursors == 1..MaxCursors

\* the iterators: kind and, for a SearchIterator, its searchType
IteratorKinds ==
    {[kind |-> "post", searchType |-> ""], [kind |-> "reply", searchType |-> ""],
     [kind |-> "search", searchType |-> "keyword"],
     [kind |-> "search", searchType |-> "tag"],
     [kind |-> "search", searchType |-> "other"]}

FetchError == [t |-> "err", data |-> <<>>, cursorsAfter |-> 0, pagingAfter |-> 0]

\* the after-cursor a page carries: Paging.Cursors.After, else Paging.After
PageAfter(resp) ==
    IF resp.cursorsAfter # 0 THEN resp.cursorsAfter ELSE resp.pagingAfter

\* a page after which the server has nothing more
IsLastPage(resp) == resp.t = "page" /\ (PageAfter(resp) = 0 \/ Len(resp.data) = 0)

\* what the n-th fetch can get from the server: an error, or a page with
\* at most one item (the item is n) and its cursors; the server has at
\* most MaxPages pages
ServerResponses(n) ==
    LET pages == [t : {"page"}, data : {<<>>, <<n>>},
                  cursorsAfter : {0} \cup PageCursors,
                  pagingAfter : {0} \cup PageCursors]
    IN  {FetchError} \cup {r \in pages : n >= MaxPages => IsLastPage(r)}

\* HasNext
HasNext(i) == ~i.done

\* mutant: an empty page does not end the iteration
IterNext_EmptyPageGoesOn(i, resp) ==
    IF i.done
    THEN [ret |-> "nil", fetched |-> FALSE, sentAfter |-> 0, data |-> <<>>,
          nextCursor |-> i.nextCursor, done |-> i.done]
    ELSE IF i.kind = "search" /\ i.searchType \notin {"keyword", "tag"}
    THEN [ret |-> "err", fetched |-> FALSE, sentAfter |-> 0, data |-> <<>>,
          nextCursor |-> i.nextCursor, done |-> i.done]
    ELSE LET after == IF i.nextCursor # 0 THEN i.nextCursor ELSE i.optAfter
         IN  IF resp.t = "err"
             THEN [ret |-> "err", fetched |-> TRUE, sentAfter |-> after, data |-> <<>>,
                   nextCursor |-> i.nextCursor, done |-> i.done]
             ELSE [ret |-> "page", fetched |-> TRUE, sentAfter |-> after,
                   data |-> resp.data,
                   nextCursor |-> IF resp.cursorsAfter # 0 THEN resp.cursorsAfter
                                  ELSE IF resp.pagingAfter # 0 THEN resp.pagingAfter
                                  ELSE i.nextCursor,
                   done |-> (resp.cursorsAfter = 0 /\ resp.pagingAfter = 0)]

\* Next of an iterator i whose fetch, if it makes one, gets resp: what it
\* returns, whether it fetched and with which After, and the nextCursor and
\* done it leaves
IterNext(i, resp) ==
    IF i.done
    THEN [ret |-> "nil", fetched |-> FALSE, sentAfter |-> 0, data |-> <<>>,
          nextCursor |-> i.nextCursor, done |-> i.done]
    ELSE IF i.kind = "search" /\ i.searchType \notin {"keyword", "tag"}
    THEN [ret |-> "err", fetched |-> FALSE, sentAfter |-> 0, data |-> <<>>,
          nextCursor |-> i.nextCursor, done |-> i.done]
    ELSE LET after == IF i.nextCursor # 0 THEN i.nextCursor ELSE i.optAfter
         IN  IF resp.t = "err"
             THEN [ret |-> "err", fetched |-> TRUE, sentAfter |-> after, data |-> <<>>,
                   nextCursor |-> i.nextCursor, done |-> i.done]
             ELSE [ret |-> "page", fetched |-> TRUE, sentAfter |-> after,
                   data |-> resp.data,
                   nextCursor |-> IF resp.cursorsAfter # 0 THEN resp.cursorsAfter
                                  ELSE IF resp.pagingAfter # 0 THEN resp.pagingAfter
                                  ELSE i.nextCursor,
                   done |-> \/ (resp.cursorsAfter = 0 /\ resp.pagingAfter = 0)
                            \/ Len(resp.data) = 0]

NoLast == [op |-> "none", ret |-> "none", fetched |-> FALSE, sentAfter |-> 0,
           expAfter |-> 0, endedBefore |-> FALSE, cursorBefore |-> 0,
           doneBefore |-> FALSE]

\* NewPostIterator, NewReplyIterator, NewSearchIterator
ItInit ==
    /\ now = 0
    /\ rl = NewRateLimiter(0 - Second)
    /\ cfg = ExampleConfig
    /\ pc = "iterator"
    /\ ctx = "background"
    /\ attempt = 0
    /\ delay = 0
    /\ lastErr = NoErr
    /\ result = NoResult
    /\ obs = ObsInit
    /\ cls = ClsIdle
    /\ mu = Free
    /\ th = [c \in Callers |-> ThIdle]
    /\ ctr = CtrIdle
    /\ opctx = "live"
    /\ post = PostIdle
    /\ cl = ClIdle
    /\ lg = LgIdle
    /\ rd = RdIdle
    /\ at = AtIdle
    /\ tk = TkIdle
    /\ ts = TsIdle
    /\ \E k \in IteratorKinds, a \in {0, 1} :
          it = [pc |-> "ready", kind |-> k.kind, searchType |-> k.searchType,
                optAfter |-> a, nextCursor |-> 0, done |-> FALSE,
                fetches |-> 0, prevAfter |-> 0, ended |-> FALSE,
                acc |-> <<>>, served |-> <<>>, last |-> NoLast]

itFrame == <<doVars, cls, mu, th, ctr, opctx, post, cl, lg, rd, at, tk, ts>>

\* the iterator and the record of the server after a call of Next (made
\* by the caller, op "Next", or by Collect, op "CollectNext") met resp
AfterNext(op, resp) ==
    LET r == IterNext(it, resp)
        page == r.fetched /\ resp.t = "page"
    IN  [it EXCEPT
            !.nextCursor = r.nextCursor,
            !.done = r.done,
            !.fetches = IF r.fetched THEN @ + 1 ELSE @,
            !.prevAfter = IF page THEN PageAfter(resp) ELSE @,
            !.ended = IF page THEN IsLastPage(resp) ELSE @,
            !.served = IF page /\ op = "CollectNext" THEN @ \o resp.data ELSE @,
            !.last = [op |-> op, ret |-> r.ret, fetched |-> r.fetched,
                      sentAfter |-> r.sentAfter,
                      expAfter |-> IF it.prevAfter # 0 THEN it.prevAfter
                                   ELSE it.optAfter,
                      endedBefore |-> it.ended, cursorBefore |-> it.nextCursor,
                      doneBefore |-> it.done]]

\* Next, called by the user of the iterator
NextOp ==
    /\ it.pc = "ready"
    /\ it.fetches < MaxPages
    /\ \E resp \in ServerResponses(it.fetches + 1) : it' = AfterNext("Next", resp)
    /\ UNCHANGED itFrame

\* Reset
ResetOp ==
    /\ it.pc = "ready"
    /\ it.fetches < MaxPages
    /\ it.last.op # "Reset"
    /\ it' = [it EXCEPT !.nextCursor = 0, !.done = FALSE, !.prevAfter = 0,
                        !.ended = FALSE, !.last = [NoLast EXCEPT !.op = "Reset"]]
    /\ UNCHANGED itFrame

\* Collect is called: var allPosts []Post
CollectStart ==
    /\ it.pc = "ready"
    /\ it.fetches < MaxPages
    /\ it' = [it EXCEPT !.pc = "collect", !.acc = <<>>, !.served = <<>>,
                        !.last = [NoLast EXCEPT !.op = "CollectStart"]]
    /\ UNCHANGED itFrame

\* one turn of the loop of Collect
CollectStep ==
    /\ it.pc = "collect"
    /\ IF ~HasNext(it)
       THEN it' = [it EXCEPT !.pc = "ready",
                             !.last = [NoLast EXCEPT !.op = "Collect", !.ret = "ok"]]
       ELSE \E resp \in ServerResponses(it.fetches + 1) :
               LET r == IterNext(it, resp)
                   n == AfterNext("CollectNext", resp)
               IN  IF r.ret = "err"
                   THEN it' = [n EXCEPT !.pc = "ready", !.acc = <<>>,
                                        !.last.op = "Collect"]
                   ELSE it' = [n EXCEPT !.acc = IF r.ret = "page"
                                                THEN @ \o r.data ELSE @]
    /\ UNCHANGED itFrame

ItNext == NextOp \/ ResetOp \/ CollectStart \/ CollectStep

SpecIterator == ItInit /\ [][ItNext]_vars

\* the goroutine that called Collect keeps running its loop
SpecIteratorFair == SpecIterator /\ WF_vars(CollectStep)

\* the safety part of C30
IteratorInv ==
    it.pc # "none" =>
        /\ it.last.fetched => it.last.sentAfter = it.last.expAfter
        /\ it.ended => ~HasNext(it)
        /\ (it.last.op = "Next" /\ it.last.endedBefore) =>
              (it.last.ret = "nil" /\ ~it.last.fetched)
        /\ it.last.ret = "err" =>
              (it.nextCursor = it.last.cursorBefore /\ it.done = it.last.doneBefore)
        /\ (it.last.op = "Collect" /\ it.last.ret = "ok") =>
              (it.acc = it.served /\ it.ended)

\* C30: each Next fetches with the after-cursor of the previous successful
\* page; after a page without after-cursor or without data HasNext is false
\* and Next returns (nil, nil) without a fetch until Reset; a failed fetch
\* leaves nextCursor and done unchanged; and Collect, on a server that
\* comes to a last page, terminates and returns the remaining pages
\* concatenated in order.
C30_Iterator ==
    /\ []IteratorInv
    /\ (it.pc = "collect") ~> (it.pc = "ready")

\* Collect has returned two pages' items in order after a Next of the caller
C30_Witness ==
    /\ it.last.op = "Collect" /\ it.last.ret = "ok"
    /\ Len(it.acc) = 2 /\ it.acc[1] < it.acc[2]
    /\ it.fetches = MaxPages
    /\ ~HasNext(it)

====
